---------------------------- MODULE Spec2Model ----------------------------
(***************************************************************************)
(* The navigation / selection commands of src/editor-model/commands.ts,    *)
(* as a state machine over an atom tree and the cursor state               *)
(* (position, anchor) of the editor model.                                 *)
(*                                                                         *)
(* The tree is an arena: tree[id] is an atom record, id 1 is the root,     *)
(* id 0 stands for JavaScript's undefined.  The offset model (at,          *)
(* offsetOf, lastOffset) is the flattening of the root's branches: the     *)
(* atoms of each branch in order, every atom preceded by its own           *)
(* descendants, the root itself not being part of it.  As the model        *)
(* object does (model.atoms), the tree keeps this flattening, in the       *)
(* field atoms of the root, and renews it when its shape changes.          *)
(***************************************************************************)
EXTENDS Integers, Sequences, FiniteSets, TLC

VARIABLES
    tree,       \* the atom arena (Atom objects reachable from model.root)
    position,   \* model.position
    anchor,     \* model.anchor
    suppress,   \* model.suppressChangeNotifications
    pc,         \* "idle": waiting for a command; "returned": a command returned
    last        \* what the last command did (return value, announcements, ...)

vars == <<tree, position, anchor, suppress, pc, last>>

---------------------------------------------------------------------------
(* Atoms *)

Undefined == 0          \* no atom (JavaScript undefined)
Root == 1               \* model.root
NoValue == "undefined"  \* atom.value of an atom constructed without a value

NAMED_BRANCHES == <<"above", "body", "below", "superscript", "subscript">>

NoBranches == [b \in {"above", "body", "below", "superscript", "subscript"} |-> <<>>]

\* new Atom(type, {mode, value}) attached to `parent` in branch `treeBranch`
NewAtom(type, cls, mode, value, parent, treeBranch) ==
    [type |-> type, cls |-> cls, mode |-> mode, value |-> value,
     parent |-> parent, treeBranch |-> treeBranch,
     captureSelection |-> FALSE, skipBoundary |-> FALSE,
     isSuggestion |-> FALSE, baseType |-> "", limits |-> "",
     branch |-> NoBranches, atoms |-> <<>>]

\* a description of an atom to build: a leaf unless kids is not empty
Desc(type, cls, mode, value) ==
    [type |-> type, cls |-> cls, mode |-> mode, value |-> value,
     captureSelection |-> FALSE, skipBoundary |-> FALSE,
     isSuggestion |-> FALSE, baseType |-> "", limits |-> "", kids |-> <<>>]

RECURSIVE addBranch(_, _, _, _), addAtoms(_, _, _, _), addKids(_, _, _)
\* atom.createBranch(b) followed by adding the described atoms to the branch:
\* the branch starts with its 'first' sentinel
addBranch(t, p, b, ds) ==
    LET f == Len(t) + 1
        t1 == Append(t, NewAtom("first", "Atom", t[p].mode, NoValue, p, b))
    IN addAtoms([t1 EXCEPT ![p].branch[b] = <<f>>], p, b, ds)

addAtoms(t, p, b, ds) ==
    IF ds = <<>> THEN t
    ELSE LET d == Head(ds)
             id == Len(t) + 1
             a == [NewAtom(d.type, d.cls, d.mode, d.value, p, b) EXCEPT
                     !.captureSelection = d.captureSelection,
                     !.skipBoundary = d.skipBoundary,
                     !.isSuggestion = d.isSuggestion,
                     !.baseType = d.baseType,
                     !.limits = d.limits]
             t1 == Append(t, a)
             t2 == [t1 EXCEPT ![p].branch[b] = Append(@, id)]
         IN addAtoms(addKids(t2, id, d.kids), p, b, Tail(ds))

addKids(t, id, ks) ==
    IF ks = <<>> THEN t
    ELSE addKids(addBranch(t, id, Head(ks)[1], Head(ks)[2]), id, Tail(ks))

RECURSIVE children(_, _), branchAtoms(_, _)
\* the atoms of a branch, each preceded by its descendants
branchAtoms(t, s) ==
    IF s = <<>> THEN <<>>
    ELSE children(t, Head(s)) \o <<Head(s)>> \o branchAtoms(t, Tail(s))

\* atom.children: the descendants of an atom, branch by branch
children(t, a) ==
    branchAtoms(t, t[a].branch["above"]) \o
    branchAtoms(t, t[a].branch["body"]) \o
    branchAtoms(t, t[a].branch["below"]) \o
    branchAtoms(t, t[a].branch["superscript"]) \o
    branchAtoms(t, t[a].branch["subscript"])

\* model.atoms = model.root.children, renewed after a change of shape
reindex(t) == [t EXCEPT ![Root].atoms = children(t, Root)]

\* a document: a root of the given mode whose body holds the described atoms
MakeDoc(mode, ds) ==
    reindex(addBranch(<<NewAtom("root", "Atom", mode, NoValue, Undefined, "")>>,
                      Root, "body", ds))

\* atom.branch(name): the branch, or undefined (here the empty sequence)
branch(t, a, b) == t[a].branch[b]

\* atom.createBranch(name): idempotent
createBranch(t, a, b) ==
    IF branch(t, a, b) # <<>> THEN t ELSE reindex(addBranch(t, a, b, <<>>))

---------------------------------------------------------------------------
(* Offset model *)

\* model.atoms
atoms(t) == t[Root].atoms

\* model.lastOffset
lastOffset(t) == Len(atoms(t)) - 1

\* model.at(offset): undefined out of range
at(t, i) == IF i \in 0..lastOffset(t) THEN atoms(t)[i + 1] ELSE Undefined

\* the least member of a set of numbers with one member at least
Least(K) == CHOOSE k \in K : \A j \in K : k <= j

\* Array.prototype.indexOf
indexOf(s, x) ==
    IF \E k \in DOMAIN s : s[k] = x
    THEN Least({k \in DOMAIN s : s[k] = x}) - 1
    ELSE -1

\* model.offsetOf(atom)
offsetOf(t, a) == indexOf(atoms(t), a)

---------------------------------------------------------------------------
(* Structural queries on an atom (a # Undefined, a # Root) *)

siblings(t, a) == t[t[a].parent].branch[t[a].treeBranch]

\* array[k - 1]: undefined outside the array
elementAt(s, k) == IF k \in DOMAIN s THEN s[k] ELSE Undefined

leftSibling(t, a) == elementAt(siblings(t, a), indexOf(siblings(t, a), a))

rightSibling(t, a) == elementAt(siblings(t, a), indexOf(siblings(t, a), a) + 2)

firstSibling(t, a) == elementAt(siblings(t, a), 1)

lastSibling(t, a) == elementAt(siblings(t, a), Len(siblings(t, a)))

isFirstSibling(t, a) == firstSibling(t, a) = a

isLastSibling(t, a) == lastSibling(t, a) = a

firstChild(t, a) == elementAt(children(t, a), 1)

lastChild(t, a) == elementAt(children(t, a), Len(children(t, a)))

\* the type of an atom, undefined?.type being undefined
typeOf(t, a) == IF a = Undefined THEN "undefined" ELSE t[a].type

---------------------------------------------------------------------------
(* Regular expressions applied to atom.value.  RegExp.test converts its    *)
(* argument to a string, so an undefined value is tested as "undefined".   *)

Letters == {"a", "b", "l", "u", "e", "y", "o", "w", "x"}
Digits == {"1", "2"}

\* LETTER_AND_DIGITS.test(value)
LETTER_AND_DIGITS(v) == v \in Letters \cup Digits \cup {NoValue}

\* /\s/.test(value)
isWhitespace(v) == v = " "

\* /[a-zA-Z\*]/.test(value)
isCommandChar(v) == v \in Letters \cup {"*", NoValue}

---------------------------------------------------------------------------
(* The model object during one command: the cursor state and the tree,     *)
(* with what the command has announced, the hooks it has called, the       *)
(* loop iterations it has run, whether it threw, and its return value.     *)

announce(m, kind) == [m EXCEPT !.announced = Append(@, kind)]

return(m, value) == [m EXCEPT !.ret = value]

\* an uncaught TypeError (a property of undefined was read)
throw(m) == [m EXCEPT !.err = TRUE]

tick(m, n) == [m EXCEPT !.steps = @ + n]

\* Math.max, Math.min
max(a, b) == IF a > b THEN a ELSE b

min(a, b) == IF a < b THEN a ELSE b

\* model.position = value: a collapsed selection at value
setPosition(m, value) == [m EXCEPT !.position = value, !.anchor = value]

\* model.setSelection(from, to): the anchor at from, the position at to
setSelection(m, from, to) == [m EXCEPT !.anchor = from, !.position = to]

\* what model.setSelection(from, to) returns: whether the selection changed
selectionChanges(m, from, to) == m.anchor # from \/ m.position # to

\* what model.collapseSelection(direction) returns
isNotCollapsed(m) == m.anchor # m.position

\* model.collapseSelection(direction)
collapseSelection(m, direction) ==
    IF m.anchor = m.position THEN m
    ELSE setPosition(m, IF direction = "backward" THEN min(m.anchor, m.position)
                        ELSE max(m.anchor, m.position))

\* model.selectionIsPlaceholder: the selection covers exactly one placeholder
selectionIsPlaceholder(m) ==
    /\ max(m.anchor, m.position) - min(m.anchor, m.position) = 1
    /\ typeOf(m.tree, at(m.tree, max(m.anchor, m.position))) = "placeholder"

\* the offset one step from the caret in the direction
step(m, direction) == m.position + (IF direction = "forward" THEN 1 ELSE -1)

\* model.extendSelection(direction): the position moves by one offset, the
\* anchor stays; false (and nothing changes) at the edge of the document
extendSelection(m, direction) ==
    IF step(m, direction) \notin 0..lastOffset(m.tree) THEN return(m, FALSE)
    ELSE return(setSelection(m, m.anchor, step(m, direction)), TRUE)

\* moveToMathFieldStart
moveToMathFieldStart(m) ==
    IF m.position = 0 THEN return(announce(m, "plonk"), FALSE)
    ELSE return(setPosition(m, 0), TRUE)

\* moveToMathFieldEnd
moveToMathFieldEnd(m) ==
    IF m.position = lastOffset(m.tree) THEN return(announce(m, "plonk"), FALSE)
    ELSE return(setPosition(m, lastOffset(m.tree)), TRUE)

\* the commands a hook of the host may call on the model before it returns
HostCommands == {"moveToMathFieldStart", "moveToMathFieldEnd"}

\* the hook runs, synchronously: the host calls the command env.inner, if any
hostCommand(m, env) ==
    CASE env.inner = "moveToMathFieldStart" -> moveToMathFieldStart(m)
      [] env.inner = "moveToMathFieldEnd" -> moveToMathFieldEnd(m)
      [] OTHER -> m

\* the hook has returned: the call is recorded with the cursor as it left it
hookReturned(m, name, direction) ==
    [m EXCEPT !.hooks = Append(@, [hook |-> name, direction |-> direction,
                                   position |-> m.position, anchor |-> m.anchor])]

\* model.hooks.moveOut(model, direction), the host answering env.moveOut
callMoveOut(m, direction, env) == hookReturned(hostCommand(m, env), "moveOut", direction)

\* model.hooks.tabOut(model, direction), the host answering env.tabOut
callTabOut(m, direction, env) == hookReturned(hostCommand(m, env), "tabOut", direction)

---------------------------------------------------------------------------
(* Deletion of a range of offsets *)

\* the tree without the atoms at the offsets lo+1 .. hi
withoutAtoms(t, gone) ==
    LET keep(x) == x \notin gone
    IN [a \in DOMAIN t |->
          [t[a] EXCEPT !.branch = [b \in DOMAIN t[a].branch |->
                                      SelectSeq(t[a].branch[b], keep)]]]

extractAtoms(t, lo, hi) ==
    reindex(withoutAtoms(t, {at(t, i) : i \in (lo + 1)..hi} \ {Undefined}))

\* an end of a range: a negative offset counts from the end of the document,
\* -1 being lastOffset
normalizeOffset(t, k) == IF k < 0 THEN max(0, lastOffset(t) + k + 1) ELSE k

\* model.normalizeRange(range): the ends counted from the start, in order
normalizeRange(t, range) ==
    <<min(normalizeOffset(t, range[1]), normalizeOffset(t, range[2])),
      max(normalizeOffset(t, range[1]), normalizeOffset(t, range[2]))>>

\* the deletion of a normalized range
deleteNormalized(m, range) ==
    IF range[1] >= range[2] THEN m
    ELSE setPosition([m EXCEPT !.tree = extractAtoms(m.tree, range[1], range[2])],
                     range[1])

\* deleteRange(model, [lo, hi]): the atoms after lo up to hi are removed
\* and the caret is left at lo; an empty range changes nothing
deleteRange(m, range) == deleteNormalized(m, normalizeRange(m.tree, range))

isSuggestion(t, a) ==
    a # Undefined /\ t[a].cls = "CommandAtom" /\ t[a].isSuggestion

isSuggestionAt(t, i) == isSuggestion(t, at(t, i))

\* the offsets of the suggestion atoms
suggestionOffsets(t) == {i \in 0..lastOffset(t) : isSuggestionAt(t, i)}

\* the offset of the last atom of the run of suggestions that starts at start
suggestionEnd(t, start) ==
    Least({i \in start..lastOffset(t) : ~isSuggestionAt(t, i + 1)})

\* getCommandSuggestionRange(model): the first run of suggestion atoms, as
\* [offset before the run, offset of its last atom]; <<0, 0>> when none
getCommandSuggestionRange(t) ==
    IF suggestionOffsets(t) = {} THEN <<0, 0>>
    ELSE <<Least(suggestionOffsets(t)) - 1,
           suggestionEnd(t, Least(suggestionOffsets(t)))>>

---------------------------------------------------------------------------
(* moveUpward / moveDownward *)

RECURSIVE ancestorInBranch(_, _, _)
\* while (atom && atom.treeBranch !== name) atom = atom.parent
ancestorInBranch(t, a, name) ==
    IF a = Undefined THEN Undefined
    ELSE IF t[a].treeBranch = name THEN a
    ELSE ancestorInBranch(t, t[a].parent, name)

\* the exit at the top of the document with the host's answer dropped
verticalOutOfBoundsDefault(m, dirName, env) ==
    IF m.suppress THEN return(announce(m, "plonk"), TRUE)
    ELSE return(announce(callMoveOut(m, dirName, env), "plonk"), TRUE)

\* at the top of the document: the moveOut hook unless notifications are
\* suppressed; 'plonk' when the default handling is wanted, else 'line'
verticalOutOfBounds(m, dirName, env) ==
    IF m.suppress THEN return(announce(m, "plonk"), TRUE)
    ELSE return(announce(callMoveOut(m, dirName, env),
                         IF env.moveOut THEN "plonk" ELSE "line"),
                env.moveOut)

\* what tells moveUpward from moveDownward
Upward ==
    [from |-> "below", to |-> "above", name |-> "upward", announcement |-> "move up"]

Downward ==
    [from |-> "above", to |-> "below", name |-> "downward", announcement |-> "move down"]

\* the extending move creating the branch as the move that does not extend
selectOwnerCreating(m, owner, v) ==
    return(announce(setSelection([m EXCEPT !.tree = createBranch(m.tree, owner, v.to)],
                                 offsetOf(m.tree, leftSibling(m.tree, owner)),
                                 offsetOf(m.tree, owner)),
                    v.announcement), TRUE)

\* extend: model.setSelection(offsetOf(atom.parent.leftSibling), offsetOf(atom.parent))
selectOwner(m, owner, v) ==
    return(announce(setSelection(m, offsetOf(m.tree, leftSibling(m.tree, owner)),
                                    offsetOf(m.tree, owner)),
                    v.announcement), TRUE)

\* model.position = model.offsetOf(branch[branch.length - 1])
lastOfBranch(m, owner, v) ==
    return(announce(setPosition(m, offsetOf(m.tree,
                                            elementAt(branch(m.tree, owner, v.to),
                                                      Len(branch(m.tree, owner, v.to))))),
                    v.announcement), TRUE)

\* the move to the last atom of the branch without creating a missing branch
enterBranchWithoutCreating(m, owner, v) == lastOfBranch(m, owner, v)

\* atom.parent.branch(to) ?? atom.parent.createBranch(to), and the move to
\* the last atom of the branch
enterBranch(m, owner, v) ==
    lastOfBranch([m EXCEPT !.tree = createBranch(m.tree, owner, v.to)], owner, v)

\* the move once the ancestor `atom` in the branch v.from has been looked for
verticalTo(m, extend, env, v, atom) ==
    IF atom # Undefined THEN
       IF extend THEN selectOwner(m, m.tree[atom].parent, v)
       ELSE enterBranch(m, m.tree[atom].parent, v)
    ELSE IF at(m.tree, m.position) = Undefined THEN throw(m)
    ELSE IF m.tree[at(m.tree, m.position)].parent = Undefined
            \/ m.tree[m.tree[at(m.tree, m.position)].parent].parent = Undefined
    THEN verticalOutOfBounds(m, v.name, env)
    ELSE return(m, TRUE)

\* the common body of moveUpward and moveDownward after the selection has
\* been collapsed
moveVertical(m, extend, env, v) ==
    verticalTo(m, extend, env, v,
               ancestorInBranch(m.tree, at(m.tree, m.position), v.from))

moveUpward(m, extend, env) ==
    moveVertical(collapseSelection(m, "backward"), extend, env, Upward)

moveDownward(m, extend, env) ==
    moveVertical(collapseSelection(m, "forward"), extend, env, Downward)

---------------------------------------------------------------------------
(* move *)

\* atom?.parent
parentOf(t, a) == IF a = Undefined THEN Undefined ELSE t[a].parent

\* atom?.rightSibling
rightSiblingOf(t, a) == IF a = Undefined THEN Undefined ELSE rightSibling(t, a)

\* atom?.parent?.captureSelection
inCaptureSelection(t, a) ==
    parentOf(t, a) # Undefined /\ t[parentOf(t, a)].captureSelection

\* the candidate offset with the backward skipBoundary correction applied at
\* the first atom of every group, whether or not its parent is a skipBoundary
candidateAnyGroup(t, direction, pos, atom) ==
    IF direction = "forward" THEN
       IF inCaptureSelection(t, atom)
       THEN offsetOf(t, lastChild(t, parentOf(t, atom))) + 1
       ELSE IF atom # Undefined /\ t[atom].skipBoundary THEN pos + 1
       ELSE pos
    ELSE
       IF inCaptureSelection(t, atom)
       THEN max(0, offsetOf(t, firstChild(t, parentOf(t, atom))) - 1)
       ELSE IF atom # Undefined /\ isFirstSibling(t, atom) THEN pos - 1
       ELSE pos

\* the captureSelection and skipBoundary corrections of the candidate offset
\* pos, atom being the atom at pos
candidate(t, direction, pos, atom) ==
    IF direction = "forward" THEN
       IF inCaptureSelection(t, atom)
       THEN offsetOf(t, lastChild(t, parentOf(t, atom))) + 1
       ELSE IF atom # Undefined /\ t[atom].skipBoundary THEN pos + 1
       ELSE pos
    ELSE
       IF inCaptureSelection(t, atom)
       THEN max(0, offsetOf(t, firstChild(t, parentOf(t, atom))) - 1)
       ELSE IF atom # Undefined /\ isFirstSibling(t, atom)
               /\ t[parentOf(t, atom)].skipBoundary THEN pos - 1
       ELSE pos

\* the candidate offset of a forward / backward move from a collapsed caret
moveCandidate(m, direction) ==
    candidate(m.tree, direction, step(m, direction),
              at(m.tree, step(m, direction)))

\* the caret simply put at the candidate offset, placeholder or not
movePlaceCollapsed(m, pos) == setPosition(m, pos)

\* the selection a move leaves at the in-range candidate offset pos
movePlace(m, pos) ==
    IF typeOf(m.tree, at(m.tree, pos)) = "placeholder"
    THEN setSelection(m, pos - 1, pos)
    ELSE IF typeOf(m.tree, rightSiblingOf(m.tree, at(m.tree, pos))) = "placeholder"
    THEN setSelection(m, pos, pos + 1)
    ELSE setPosition(m, pos)

\* the out-of-bounds exit asking the host even while notifications are suppressed
moveOutOfBoundsUnsuppressed(m, direction, env) ==
    return(IF env.moveOut THEN announce(callMoveOut(m, direction, env), "plonk")
           ELSE callMoveOut(m, direction, env),
           env.moveOut)

\* the out-of-bounds exit as a plain soft failure: always a plonk, always false
moveOutOfBoundsSoftFail(m, direction, env) ==
    return(announce(IF m.suppress THEN m ELSE callMoveOut(m, direction, env), "plonk"),
           FALSE)

\* the out-of-bounds exit of move: the moveOut hook unless notifications are
\* suppressed, a plonk when the default handling is wanted
moveOutOfBounds(m, direction, env) ==
    IF m.suppress THEN return(announce(m, "plonk"), TRUE)
    ELSE return(IF env.moveOut THEN announce(callMoveOut(m, direction, env), "plonk")
                ELSE callMoveOut(m, direction, env),
                env.moveOut)

\* the move of a collapsed caret to the candidate offset pos
moveTo(m, direction, env, pos) ==
    IF pos < 0 \/ pos > lastOffset(m.tree)
    THEN moveOutOfBounds(m, direction, env)
    ELSE return(announce(movePlace(m, pos), "move"), TRUE)

RECURSIVE move(_, _, _, _)
\* move, once a pending command suggestion has been cleared
moveCleared(m, direction, extend, env) ==
    IF direction = "upward" THEN moveUpward(m, extend, env)
    ELSE IF direction = "downward" THEN moveDownward(m, extend, env)
    ELSE IF extend THEN extendSelection(m, direction)
    ELSE IF selectionIsPlaceholder(m)
    THEN move(collapseSelection(m, direction), direction, FALSE, env)
    ELSE IF isNotCollapsed(m)
    THEN return(announce(collapseSelection(m, direction), "move"), TRUE)
    ELSE moveTo(m, direction, env, moveCandidate(m, direction))

move(m0, direction, extend, env) ==
    moveCleared(deleteRange(m0, getCommandSuggestionRange(m0.tree)),
                direction, extend, env)

---------------------------------------------------------------------------
(* wordBoundaryOffset.  A loop gives the offset it ends at and the number  *)
(* of loop iterations run so far (n on entry).                             *)

\* the loop conditions of wordBoundaryOffset on the atom a
wordMatch(t, a, kind) ==
    CASE kind = "alnum" -> t[a].mode = "text" /\ LETTER_AND_DIGITS(t[a].value)
      [] kind = "space" -> t[a].mode = "text" /\ isWhitespace(t[a].value)
      [] kind = "nonspace" -> t[a].mode = "text" /\ ~isWhitespace(t[a].value)

RECURSIVE whileMatch(_, _, _, _, _)
\* while (model.at(i) && <kind>(model.at(i))) i += dir
whileMatch(t, i, dir, kind, n) ==
    IF at(t, i) # Undefined /\ wordMatch(t, at(t, i), kind)
    THEN whileMatch(t, i + dir, dir, kind, n + 1)
    ELSE [offset |-> i, steps |-> n]

RECURSIVE doWhileMatch(_, _, _, _, _)
\* do { match = <kind>(model.at(i)); i += dir } while (model.at(i) && match)
doWhileMatch(t, i, dir, kind, n) ==
    IF at(t, i + dir) # Undefined /\ wordMatch(t, at(t, i), kind)
    THEN doWhileMatch(t, i + dir, dir, kind, n + 1)
    ELSE [offset |-> i + dir, steps |-> n + 1]

\* const dir = direction === 'backward' ? -1 : +1
dirOf(direction) == IF direction = "backward" THEN -1 ELSE 1

\* result = model.at(i) ? i - 2 * dir : i - dir;
\* return result - (dir > 0 ? 0 : 1), i being where the loop l ended
wordResult(t, l, dir) ==
    [offset |-> (IF at(t, l.offset) # Undefined THEN l.offset - 2 * dir
                 ELSE l.offset - dir) - (IF dir > 0 THEN 0 ELSE 1),
     steps |-> l.steps]

\* (2) after the whitespace skipped by the loop w
wordAfterSpace(t, w, dir) ==
    IF at(t, w.offset) = Undefined
    THEN [offset |-> w.offset - dir - (IF dir > 0 THEN 0 ELSE 1), steps |-> w.steps]
    ELSE wordResult(t, doWhileMatch(t, w.offset, dir, "nonspace", w.steps), dir)

\* (3) after the non-whitespace skipped by the loop w
wordAfterNonSpace(t, w, dir) ==
    wordResult(t, IF at(t, w.offset) = Undefined THEN w
                  ELSE doWhileMatch(t, w.offset, dir, "space", w.steps),
               dir)

\* wordBoundaryOffset from the atom a at offset
wordFrom(t, offset, dir, a) ==
    IF t[a].mode # "text" THEN [offset |-> offset, steps |-> 0]
    ELSE IF LETTER_AND_DIGITS(t[a].value)
    THEN wordResult(t, doWhileMatch(t, offset, dir, "alnum", 0), dir)
    ELSE IF isWhitespace(t[a].value)
    THEN wordAfterSpace(t, whileMatch(t, offset, dir, "space", 0), dir)
    ELSE wordAfterNonSpace(t, whileMatch(t, offset, dir, "nonspace", 0), dir)

\* wordBoundaryOffset(model, offset, direction), model.at(offset) being an atom
wordBoundaryOffset(t, offset, direction) ==
    wordFrom(t, offset, dirOf(direction), at(t, offset))

---------------------------------------------------------------------------
(* skip: the loops *)

isCommandAtom(t, a) == a # Undefined /\ t[a].cls = "CommandAtom"

\* no loop of skip runs this often; a loop that reaches it is cut off
stepLimit(t) == 2 * Len(t) + 4

RECURSIVE acceptSuggestion(_, _, _, _)
\* while (atom && atom instanceof CommandAtom) {
\*     atom.isSuggestion = false; offset = offsetOf(atom); atom = atom.rightSibling }
acceptSuggestion(t, a, offset, n) ==
    IF isCommandAtom(t, a)
    THEN acceptSuggestion([t EXCEPT ![a].isSuggestion = FALSE],
                          rightSibling(t, a), offsetOf(t, a), n + 1)
    ELSE [tree |-> t, offset |-> offset, steps |-> n]

\* atom.rightSibling going forward, atom.leftSibling going backward
nextSibling(t, a, direction) ==
    IF direction = "forward" THEN rightSibling(t, a) ELSE leftSibling(t, a)

RECURSIVE commandRun(_, _, _, _, _)
\* while (atom && atom instanceof CommandAtom && /[a-zA-Z\*]/.test(atom.value)) {
\*     offset = offsetOf(atom); atom = atom.rightSibling (or leftSibling) }
commandRun(t, a, offset, direction, n) ==
    IF isCommandAtom(t, a) /\ isCommandChar(t[a].value)
    THEN commandRun(t, nextSibling(t, a, direction), offsetOf(t, a), direction, n + 1)
    ELSE [offset |-> offset, steps |-> n]

fenceLevel(t, a, level) ==
    IF t[a].type = "mopen" THEN level + 1
    ELSE IF t[a].type = "mclose" THEN level - 1
    ELSE level

RECURSIVE fenceForward(_, _, _, _)
\* while (!atom.isLastSibling && level !== 0), atom being the right sibling:
\* atom.isLastSibling throws when there is none
fenceForwardWhile(t, atom, level, n) ==
    IF atom = Undefined THEN [atom |-> Undefined, steps |-> n, err |-> TRUE]
    ELSE IF ~isLastSibling(t, atom) /\ level # 0 THEN fenceForward(t, atom, level, n)
    ELSE [atom |-> atom, steps |-> n, err |-> FALSE]

\* do { level +-= 1; atom = atom.rightSibling } while (...)
fenceForward(t, a, level, n) ==
    fenceForwardWhile(t, rightSibling(t, a), fenceLevel(t, a, level), n + 1)

RECURSIVE fenceBackward(_, _, _, _)
\* while (!atom.isFirstSibling && level !== 0), atom being the left sibling
fenceBackwardWhile(t, atom, level, n) ==
    IF atom = Undefined THEN [atom |-> Undefined, steps |-> n, err |-> TRUE]
    ELSE IF ~isFirstSibling(t, atom) /\ level # 0 THEN fenceBackward(t, atom, level, n)
    ELSE [atom |-> atom, steps |-> n, err |-> FALSE]

\* do { level +-= 1; atom = atom.leftSibling } while (...)
fenceBackward(t, a, level, n) ==
    fenceBackwardWhile(t, leftSibling(t, a), fenceLevel(t, a, level), n + 1)

RECURSIVE firstRun(_, _, _)
\* while (offset > 0 && atom.type === 'first') { offset -= 1; atom = model.at(offset) }
firstRun(t, offset, n) ==
    IF offset > 0 /\ typeOf(t, at(t, offset)) = "first"
    THEN firstRun(t, offset - 1, n + 1)
    ELSE [offset |-> offset, steps |-> n]

\* if (model.at(offset)?.type === 'msubsup')
\*     offset = offsetOf(model.at(offset).leftSibling) else offset -= 1
previousOffset(t, offset) ==
    IF typeOf(t, at(t, offset)) = "msubsup"
    THEN offsetOf(t, leftSibling(t, at(t, offset)))
    ELSE offset - 1

RECURSIVE mathBackward(_, _, _, _)
\* nextType = model.at(offset).type, which throws without an atom at offset
mathBackwardNext(t, offset, type, n) ==
    IF at(t, offset) = Undefined
    THEN [offset |-> offset, steps |-> n, err |-> TRUE]
    ELSE mathBackward(t, offset, type, n)

\* while (offset >= 0 && nextType === type) { <previousOffset>; <nextType> }
mathBackward(t, offset, type, n) ==
    IF offset >= 0 /\ typeOf(t, at(t, offset)) = type /\ n < stepLimit(t)
    THEN mathBackwardNext(t, previousOffset(t, offset), type, n + 1)
    ELSE [offset |-> offset, steps |-> n, err |-> FALSE]

\* the inner loop of the forward math run making no progress
nextSubsupOffsetStuck(t, offset) == offsetOf(t, at(t, offset))

\* offset = model.offsetOf(model.at(offset).rightSibling)
nextSubsupOffset(t, offset) == offsetOf(t, rightSibling(t, at(t, offset)))

RECURSIVE skipSubsup(_, _, _)
\* while (model.at(offset).rightSibling?.type === 'msubsup')
\*     offset = offsetOf(model.at(offset).rightSibling)
skipSubsup(t, offset, n) ==
    IF typeOf(t, rightSibling(t, at(t, offset))) = "msubsup" /\ n < stepLimit(t)
    THEN skipSubsup(t, nextSubsupOffset(t, offset), n + 1)
    ELSE [offset |-> offset, steps |-> n]

RECURSIVE mathForward(_, _, _, _)
\* offset += 1; nextType = model.at(offset)?.type, s being where the inner
\* loop ended
mathForwardNext(t, s, type) == mathForward(t, s.offset + 1, type, s.steps + 1)

\* while (offset <= lastOffset && (nextType === type || nextType === 'msubsup')) {
\*     <skipSubsup>; <mathForwardNext> }
\* offset -= 1
mathForward(t, offset, type, n) ==
    IF /\ offset <= lastOffset(t)
       /\ typeOf(t, at(t, offset)) \in {type, "msubsup"}
       /\ n < stepLimit(t)
    THEN mathForwardNext(t, skipSubsup(t, offset, n), type)
    ELSE [offset |-> offset - 1, steps |-> n]

---------------------------------------------------------------------------
(* skip *)

\* the atom skip starts from: the atom at the position when going backward,
\* the atom after it when going forward (the right sibling of a 'msubsup')
skipStart(t, pos, direction) ==
    IF direction = "forward" THEN
       IF t[at(t, pos)].type = "msubsup" THEN
          IF rightSibling(t, at(t, pos)) # Undefined
          THEN rightSibling(t, at(t, pos))
          ELSE at(t, pos + 1)
       ELSE at(t, pos + 1)
    ELSE at(t, pos)

\* what skip has computed: the offset to go to and the tree, or the outcome
\* "plonk" where skip returns false early, "throw" where it throws
SkipResult(t, offset, steps, outcome) ==
    [tree |-> t, offset |-> offset, steps |-> steps, outcome |-> outcome]

\* the offset the loop r ended at
afterLoop(t, r) == SkipResult(t, r.offset, r.steps, "found")

afterSuggestion(r) == SkipResult(r.tree, r.offset, r.steps, "found")

\* a command that is not a suggestion: plonk at the end of the command
commandSkip(t, next, offset, direction) ==
    IF ~isCommandAtom(t, next) THEN SkipResult(t, offset, 0, "plonk")
    ELSE afterLoop(t, commandRun(t, next, offset, direction, 0))

\* offset = model.offsetOf(atom.leftSibling)
afterFenceForward(t, r) ==
    IF r.err THEN SkipResult(t, 0, r.steps, "throw")
    ELSE SkipResult(t, offsetOf(t, leftSibling(t, r.atom)), r.steps, "found")

\* offset = model.offsetOf(atom)
afterFenceBackward(t, r) ==
    IF r.err THEN SkipResult(t, 0, r.steps, "throw")
    ELSE SkipResult(t, offsetOf(t, r.atom), r.steps, "found")

afterMathBackward(t, r) ==
    SkipResult(t, r.offset, r.steps, IF r.err THEN "throw" ELSE "found")

\* atom instanceof SubsupAtom ? atom.baseType : atom.type
baseTypeOf(t, atom) ==
    IF t[atom].cls = "SubsupAtom" THEN t[atom].baseType ELSE t[atom].type

\* after a 'msubsup' the run starts left of its left sibling; offset -= 1
mathBackwardStart(t, atom, offset) ==
    (IF t[atom].type = "msubsup"
     THEN offsetOf(t, leftSibling(t, at(t, offset)))
     ELSE offset) - 1

\* the offset skip computes from the atom it starts from, which is at offset
skipFrom(t, atom, direction, offset) ==
    IF t[atom].cls = "TextAtom"
    THEN afterLoop(t, wordBoundaryOffset(t, offset, direction))
    ELSE IF t[atom].cls = "CommandAtom" THEN
       IF t[atom].isSuggestion
       THEN afterSuggestion(acceptSuggestion(t, atom, offset, 0))
       ELSE commandSkip(t, nextSibling(t, atom, direction), offset, direction)
    ELSE IF direction = "forward" /\ t[atom].type = "mopen"
    THEN afterFenceForward(t, fenceForward(t, atom, 0, 0))
    ELSE IF direction = "backward" /\ t[atom].type = "mclose"
    THEN afterFenceBackward(t, fenceBackward(t, atom, 0, 0))
    ELSE IF direction = "backward" THEN
       IF t[atom].type = "first"
       THEN afterLoop(t, firstRun(t, offset, 0))
       ELSE afterMathBackward(t, mathBackward(t, mathBackwardStart(t, atom, offset),
                                              baseTypeOf(t, atom), 0))
    ELSE afterLoop(t, mathForward(t, offset, t[atom].type, 0))

skipTarget(t, atom, direction) == skipFrom(t, atom, direction, offsetOf(t, atom))

\* the end of skip: the selection is set to the offset found
skipSet(m, extend, s) ==
    IF s.outcome = "throw" THEN throw(m)
    ELSE IF s.outcome = "plonk" THEN return(announce(m, "plonk"), FALSE)
    ELSE IF extend THEN
       IF ~selectionChanges(m, m.anchor, s.offset)
       THEN return(announce(m, "plonk"), FALSE)
       ELSE return(announce(setSelection(m, m.anchor, s.offset), "move"), TRUE)
    ELSE IF s.offset = m.position
    THEN return(announce(m, "plonk"), FALSE)
    ELSE return(announce(setPosition(m, s.offset), "move"), TRUE)

\* skip has computed s: the tree it left, the iterations it ran
skipEnd(m, extend, s) ==
    skipSet(tick([m EXCEPT !.tree = s.tree], s.steps), extend, s)

\* skip from the atom it starts from
skipAtom(m, direction, extend, atom) ==
    IF atom = Undefined THEN return(announce(m, "plonk"), FALSE)
    ELSE skipEnd(m, extend, skipTarget(m.tree, atom, direction))

\* skip once the selection has been collapsed (unless it is extended):
\* going forward atom.type is read, which throws without an atom
skipCollapsed(m, direction, extend) ==
    IF direction = "forward" /\ at(m.tree, m.position) = Undefined THEN throw(m)
    ELSE skipAtom(m, direction, extend, skipStart(m.tree, m.position, direction))

skip(m0, direction, extend) ==
    skipCollapsed(IF extend THEN m0 ELSE collapseSelection(m0, direction),
                  direction, extend)

---------------------------------------------------------------------------
(* moveAfterParent, moveBeforeParent *)

moveAfterParent(m) ==
    IF at(m.tree, m.position) = Undefined THEN throw(m)
    ELSE IF m.tree[at(m.tree, m.position)].parent = Undefined
    THEN return(announce(m, "plonk"), FALSE)
    ELSE return(announce(setPosition(m, offsetOf(m.tree,
                                                 m.tree[at(m.tree, m.position)].parent)),
                         "move"), TRUE)

moveBeforeParent(m) ==
    IF at(m.tree, m.position) = Undefined THEN throw(m)
    ELSE IF m.tree[at(m.tree, m.position)].parent = Undefined
    THEN return(announce(m, "plonk"), FALSE)
    ELSE return(setPosition(m, offsetOf(m.tree,
                                        m.tree[at(m.tree, m.position)].parent)),
                TRUE)

---------------------------------------------------------------------------
(* leap *)

RECURSIVE treeDepth(_, _)
\* atom.treeDepth: 0 for the atoms of the root's branches
treeDepth(t, a) ==
    IF t[a].parent = Undefined \/ t[a].parent = Root THEN 0
    ELSE 1 + treeDepth(t, t[a].parent)

\* model.getAllAtoms(offset): the atoms from offset to the end of the tree
getAllAtoms(t, offset) == SubSeq(atoms(t), max(offset, 0) + 1, Len(atoms(t)))

reverse(s) == [k \in 1..Len(s) |-> s[Len(s) + 1 - k]]

\* a placeholder, or the 'first' of an empty branch below the root
isLeapCandidate(t, a) ==
    \/ t[a].type = "placeholder"
    \/ treeDepth(t, a) > 0 /\ isFirstSibling(t, a) /\ isLastSibling(t, a)

\* the candidate placeholders from offset on, the nearest first
leapCandidates(t, offset, dir) ==
    SelectSeq(IF dir = "backward" THEN reverse(getAllAtoms(t, offset))
              ELSE getAllAtoms(t, offset),
              LAMBDA a : isLeapCandidate(t, a))

\* the index of the tabbable element that gets the focus
focusIndex(env, dist) ==
    IF env.index + dist < 0 THEN env.count - 1
    ELSE IF env.index + dist >= env.count THEN 0
    ELSE env.index + dist

\* the host's tabbable elements: their number, and the index among them of
\* document.activeElement (-1: not among them, -2: no active element)
leapFocus(m, dist, env) ==
    IF env.index = -2 \/ env.count = 1 THEN return(announce(m, "plonk"), FALSE)
    ELSE IF focusIndex(env, dist) = 0
    THEN return(announce([m EXCEPT !.focus = 0], "plonk"), FALSE)
    ELSE return([m EXCEPT !.focus = focusIndex(env, dist)], TRUE)

\* leap treating every answer of tabOut as having handled the leap
leapOutSoftFail(m, dir, env) == return(announce(callTabOut(m, dir, env), "plonk"), FALSE)

\* no placeholder was found: the tabOut hook, then the next tabbable element
leapOut(m, dir, env) ==
    IF ~env.tabOut THEN return(announce(callTabOut(m, dir, env), "plonk"), FALSE)
    ELSE leapFocus(callTabOut(m, dir, env), dirOf(dir), env)

\* the selection is set to the placeholder found, which is at newPosition
leapSelect(m, atom, newPosition) ==
    IF m.tree[atom].type = "placeholder"
    THEN return(announce(setSelection(m, newPosition - 1, newPosition), "move"), TRUE)
    ELSE return(announce(setPosition(m, newPosition), "move"), TRUE)

leapTo(m, dir, env, placeholders) ==
    IF placeholders = <<>> THEN leapOut(m, dir, env)
    ELSE leapSelect(m, placeholders[1], offsetOf(m.tree, placeholders[1]))

\* leap once a placeholder at the anchor has been moved past
leapFrom(m, dir, env) ==
    leapTo(m, dir, env, leapCandidates(m.tree, m.position + dirOf(dir), dir))

leap(m0, dir, env) ==
    IF at(m0.tree, m0.anchor) = Undefined THEN throw(m0)
    ELSE leapFrom(IF m0.tree[at(m0.tree, m0.anchor)].type = "placeholder"
                  THEN move(m0, dir, FALSE, env) ELSE m0,
                  dir, env)

---------------------------------------------------------------------------
(* selectGroup *)

\* getMode(model, offset): the mode of the atom at offset
getMode(t, offset) == IF at(t, offset) = Undefined THEN NoValue ELSE t[at(t, offset)].mode

\* isNumber without the ',' of type mpunct
isNumberWithoutComma(t, a) ==
    a # Undefined /\ t[a].type = "mord" /\ t[a].value \in Digits \cup {"."}

\* isNumber(atom): the atom could be a part of a number
isNumber(t, a) ==
    /\ a # Undefined
    /\ \/ t[a].type = "mord" /\ t[a].value \in Digits \cup {"."}
       \/ t[a].type = "mpunct" /\ t[a].value = ","

RECURSIVE wordStart(_, _)
\* while (!done && start > 0)
\*     if (<the atom at start is alphanumeric text>) start -= 1 else done = true
wordStart(t, start) ==
    IF start > 0 /\ wordMatch(t, at(t, start), "alnum")
    THEN wordStart(t, start - 1)
    ELSE start

RECURSIVE wordStop(_, _)
\* while (!done && end <= model.lastOffset)
\*     if (<the atom at end is alphanumeric text>) end += 1 else done = true
\* if (done) end -= 1
wordStop(t, end) ==
    IF end > lastOffset(t) THEN end
    ELSE IF wordMatch(t, at(t, end), "alnum") THEN wordStop(t, end + 1)
    ELSE end - 1

\* if (start >= end) model.setSelection(end - 1, end)
\* else model.setSelection(start, end)
selectWord(m, start, end) ==
    IF start >= end THEN return(setSelection(m, end - 1, end), TRUE)
    ELSE return(setSelection(m, start, end), TRUE)

RECURSIVE numberStart(_, _)
\* while (isNumber(model.at(start))) start -= 1
numberStart(t, start) ==
    IF isNumber(t, at(t, start)) THEN numberStart(t, start - 1) ELSE start

RECURSIVE numberEnd(_, _)
\* while (isNumber(model.at(end))) end += 1
numberEnd(t, end) ==
    IF isNumber(t, at(t, end)) THEN numberEnd(t, end + 1) ELSE end

\* in a math zone: the digits of a number, or all the siblings of the atom
\* (atom.firstSibling throws without an atom)
selectSiblings(m, atom) ==
    IF isNumber(m.tree, atom)
    THEN return(setSelection(m, numberStart(m.tree, min(m.anchor, m.position)),
                             numberEnd(m.tree, max(m.anchor, m.position)) - 1),
                TRUE)
    ELSE IF atom = Undefined THEN throw(m)
    ELSE return(setSelection(m, offsetOf(m.tree, firstSibling(m.tree, atom)),
                             offsetOf(m.tree, lastSibling(m.tree, atom))),
                TRUE)

selectGroup(m) ==
    IF getMode(m.tree, m.position) = "text"
    THEN selectWord(m, wordStart(m.tree, min(m.anchor, m.position)),
                    wordStop(m.tree, max(m.anchor, m.position)))
    ELSE selectSiblings(m, at(m.tree, m.position))

\* if (!result) model.announce('plonk'); return result
plonkUnless(m) == IF m.err \/ m.ret THEN m ELSE announce(m, "plonk")

---------------------------------------------------------------------------
(* moveToSuperscript, moveToSubscript, moveToOpposite *)

\* mathfield.options.scriptDepth: the deepest subscript and superscript
ScriptDepth == [subscript |-> 1, superscript |-> 1]

\* atom.hasEmptyBranch(name): no branch, or a branch of its 'first' atom only
hasEmptyBranch(t, a, name) == Len(branch(t, a, name)) <= 1

RECURSIVE scriptWalk(_, _, _, _)
\* while (atom) { ...; atom = atom.parent }: the number of atoms, from atom
\* up, that have a script, and the kind of script of the last of them
scriptWalk(t, atom, result, script) ==
    IF atom = Undefined THEN [result |-> result, script |-> script]
    ELSE scriptWalk(t, t[atom].parent,
                    IF ~hasEmptyBranch(t, atom, "superscript")
                         \/ ~hasEmptyBranch(t, atom, "subscript")
                    THEN result + 1 ELSE result,
                    IF ~hasEmptyBranch(t, atom, "superscript") THEN "superscript"
                    ELSE IF ~hasEmptyBranch(t, atom, "subscript") THEN "subscript"
                    ELSE script)

\* return wasSuperscript ? result : 0 (wasSubscript for the subscript)
depthOf(w, name) == IF w.script = name THEN w.result ELSE 0

\* superscriptDepth(model), subscriptDepth(model)
scriptDepth(m, name) ==
    depthOf(scriptWalk(m.tree, at(m.tree, m.position), 0, "none"), name)

\* new SubsupAtom({baseType: target.type}) for a superscript,
\* new Atom('msubsup', {mode: target.mode, value: '​'}) for a subscript
newSubsup(t, name, target) ==
    IF name = "superscript"
    THEN [NewAtom("msubsup", "SubsupAtom", "math", NoValue,
                  t[target].parent, t[target].treeBranch)
            EXCEPT !.baseType = t[target].type]
    ELSE NewAtom("msubsup", "Atom", t[target].mode, "zwsp",
                 t[target].parent, t[target].treeBranch)

\* the sequence s with x inserted after its element `after`
insertAfter(s, after, x) ==
    SubSeq(s, 1, indexOf(s, after) + 1) \o <<x>> \o
    SubSeq(s, indexOf(s, after) + 2, Len(s))

\* target.parent.addChildAfter(atom, target)
addChildAfter(t, atom, target) ==
    reindex([Append(t, atom) EXCEPT
               ![t[target].parent].branch[t[target].treeBranch] =
                   insertAfter(@, target, Len(t) + 1)])

\* model.getSiblingsRange(offset): from the first to the last sibling of the
\* atom at offset
getSiblingsRange(t, offset) ==
    <<offsetOf(t, firstSibling(t, at(t, offset))),
      offsetOf(t, lastSibling(t, at(t, offset)))>>

\* model.getBranchRange(offset, name): from the first to the last atom of the
\* branch of the atom at offset
getBranchRange(t, offset, name) ==
    <<offsetOf(t, elementAt(branch(t, at(t, offset), name), 1)),
      offsetOf(t, elementAt(branch(t, at(t, offset), name),
                            Len(branch(t, at(t, offset), name))))>>

\* model.setSelection(model.getSiblingsRange(model.offsetOf(target.superscript[0])))
selectScript(m, name, target) ==
    return(setSelection(m,
                        getSiblingsRange(m.tree,
                                         offsetOf(m.tree, branch(m.tree, target, name)[1]))[1],
                        getSiblingsRange(m.tree,
                                         offsetOf(m.tree, branch(m.tree, target, name)[1]))[2]),
           TRUE)

\* target.createBranch(name), and the selection of the branch
scriptBranch(m, name, target) ==
    selectScript([m EXCEPT !.tree = createBranch(m.tree, target, name)], name, target)

\* if (model.at(model.position + 1)?.type !== 'msubsup')
\*     target.parent.addChildAfter(<a new msubsup>, target)
withSubsup(m, name, target) ==
    IF typeOf(m.tree, at(m.tree, m.position + 1)) # "msubsup"
    THEN [m EXCEPT !.tree = addChildAfter(m.tree, newSubsup(m.tree, name, target), target)]
    ELSE m

\* the script made on the target itself, not on the msubsup next to it
scriptAdjacentOfTarget(m, name) == scriptBranch(m, name, at(m.tree, m.position))

\* target = model.at(model.position + 1)
scriptAdjacent(m, name) == scriptBranch(m, name, at(m.tree, m.position + 1))

\* the script of the target itself when it takes limits, else of the msubsup
\* next to it
scriptOf(m, name, target) ==
    IF m.tree[target].limits \notin {"limits", "auto"}
    THEN scriptAdjacent(withSubsup(m, name, target), name)
    ELSE scriptBranch(m, name, target)

\* moveToSuperscript / moveToSubscript once the selection is collapsed
\* (target.limits throws without an atom at the position)
moveToScriptCollapsed(m, name) ==
    IF scriptDepth(m, name) >= ScriptDepth[name]
    THEN return(announce(m, "plonk"), FALSE)
    ELSE IF at(m.tree, m.position) = Undefined THEN throw(m)
    ELSE scriptOf(m, name, at(m.tree, m.position))

moveToSuperscript(m) ==
    moveToScriptCollapsed(collapseSelection(m, "forward"), "superscript")

moveToSubscript(m) ==
    moveToScriptCollapsed(collapseSelection(m, "forward"), "subscript")

\* moveToOpposite selecting the branch the caret is in
oppositeRelationSame(relation) ==
    IF relation \in {"superscript", "subscript", "above", "below"} THEN relation
    ELSE NoValue

\* OPPOSITE_RELATIONS[relation]
oppositeRelation(relation) ==
    CASE relation = "superscript" -> "subscript"
      [] relation = "subscript" -> "superscript"
      [] relation = "above" -> "below"
      [] relation = "below" -> "above"
      [] OTHER -> NoValue

\* return model.setSelection(model.getBranchRange(model.offsetOf(parent), opposite))
selectBranch(m, range) ==
    return(setSelection(m, range[1], range[2]), selectionChanges(m, range[1], range[2]))

\* parent.createBranch(opposite) if there is none, and the selection of it
oppositeBranch(m, parent, opposite) ==
    selectBranch([m EXCEPT !.tree = createBranch(m.tree, parent, opposite)],
                 getBranchRange(createBranch(m.tree, parent, opposite),
                                offsetOf(createBranch(m.tree, parent, opposite), parent),
                                opposite))

\* moveToOpposite from the atom at the position
moveToOppositeOf(m, cursor) ==
    IF cursor = Undefined THEN throw(m)
    ELSE IF m.tree[cursor].parent = Undefined THEN return(announce(m, "plonk"), FALSE)
    ELSE IF oppositeRelation(m.tree[cursor].treeBranch) = NoValue THEN
       IF m.tree[cursor].limits = "" THEN moveToSuperscript(m) ELSE moveToSubscript(m)
    ELSE oppositeBranch(m, m.tree[cursor].parent,
                        oppositeRelation(m.tree[cursor].treeBranch))

moveToOpposite(m) == moveToOppositeOf(m, at(m.tree, m.position))

---------------------------------------------------------------------------
(* the delete commands *)

\* deleteNextWord, deletePreviousWord:
\* [model.anchor, wordBoundaryOffset(model, model.position, direction)]
wordRange(m, direction) ==
    <<m.anchor, wordBoundaryOffset(m.tree, m.position, direction).offset>>

\* deleteToGroupStart with the range of deleteToGroupEnd
groupStartRangeToEnd(m) ==
    <<m.anchor, offsetOf(m.tree, lastSibling(m.tree, at(m.tree, m.position)))>>

\* deleteToGroupStart: [model.anchor, model.offsetOf(model.at(model.position).firstSibling)]
groupStartRange(m) ==
    <<m.anchor, offsetOf(m.tree, firstSibling(m.tree, at(m.tree, m.position)))>>

\* deleteToGroupEnd: [model.anchor, model.offsetOf(model.at(model.position).lastSibling)]
groupEndRange(m) ==
    <<m.anchor, offsetOf(m.tree, lastSibling(m.tree, at(m.tree, m.position)))>>

DeleteCommands ==
    {"deleteAll", "deleteNextWord", "deletePreviousWord", "deleteToGroupStart",
     "deleteToGroupEnd", "deleteToMathFieldStart", "deleteToMathFieldEnd"}

\* the commands that read model.at(model.position) to compute their range
ReadsPosition ==
    {"deleteNextWord", "deletePreviousWord", "deleteToGroupStart", "deleteToGroupEnd"}

\* the range a delete command hands to deleteRange
deleteCommandRange(m, cmd) ==
    CASE cmd = "deleteAll" -> <<0, -1>>
      [] cmd = "deleteNextWord" -> wordRange(m, "forward")
      [] cmd = "deletePreviousWord" -> wordRange(m, "backward")
      [] cmd = "deleteToGroupStart" -> groupStartRange(m)
      [] cmd = "deleteToGroupEnd" -> groupEndRange(m)
      [] cmd = "deleteToMathFieldStart" -> <<m.anchor, 0>>
      [] cmd = "deleteToMathFieldEnd" -> <<m.anchor, -1>>

\* a delete command: what deleteRange returns (true) is what it returns
deleteCommand(m, cmd) ==
    IF cmd \in ReadsPosition /\ at(m.tree, m.position) = Undefined THEN throw(m)
    ELSE return(deleteRange(m, deleteCommandRange(m, cmd)), TRUE)

---------------------------------------------------------------------------
(* moveToGroupStart, moveToGroupEnd *)

\* the end of a move to the offset pos: a plonk when the position is there
\* already
moveToOffset(m, pos) ==
    IF pos = m.position THEN return(announce(m, "plonk"), FALSE)
    ELSE return(setPosition(m, pos), TRUE)

\* moveToGroupStart
moveToGroupStart(m) ==
    IF at(m.tree, m.position) = Undefined THEN throw(m)
    ELSE moveToOffset(m, offsetOf(m.tree, firstSibling(m.tree, at(m.tree, m.position))))

\* moveToGroupEnd
moveToGroupEnd(m) ==
    IF at(m.tree, m.position) = Undefined THEN throw(m)
    ELSE moveToOffset(m, offsetOf(m.tree, lastSibling(m.tree, at(m.tree, m.position))))

---------------------------------------------------------------------------
(* Documents *)

MaxTextLen == 3     \* longest generated run of text atoms
MaxMathLen == 2     \* longest generated run of math atoms
MaxTabbable == 2    \* most tabbable elements of the host page

TextChar(v) == Desc("text", "TextAtom", "text", v)
Mord(v) == Desc("mord", "Atom", "math", v)
Mbin == Desc("mbin", "Atom", "math", "+")
Mopen == Desc("mopen", "Atom", "math", "(")
Mclose == Desc("mclose", "Atom", "math", ")")
Placeholder == Desc("placeholder", "Atom", "math", "?")
Command(v) == Desc("command", "CommandAtom", "command", v)
Suggestion(v) == [Command(v) EXCEPT !.isSuggestion = TRUE]
WithKids(d, kids) == [d EXCEPT !.kids = kids]
Genfrac(above, below) ==
    WithKids(Desc("genfrac", "Atom", "math", NoValue),
             <<<<"above", above>>, <<"below", below>>>>)
Denominator(below) ==
    WithKids(Desc("genfrac", "Atom", "math", NoValue), <<<<"below", below>>>>)
Surd(body) == WithKids(Desc("surd", "Atom", "math", NoValue), <<<<"body", body>>>>)
Superscript(baseType, sup) ==
    WithKids([Desc("msubsup", "SubsupAtom", "math", NoValue) EXCEPT !.baseType = baseType],
             <<<<"superscript", sup>>>>)
Capture(body) ==
    WithKids([Desc("group", "Atom", "math", NoValue) EXCEPT !.captureSelection = TRUE],
             <<<<"body", body>>>>)
SkipGroup(body) ==
    WithKids([Desc("group", "Atom", "math", NoValue) EXCEPT !.skipBoundary = TRUE],
             <<<<"body", body>>>>)

SeqsUpTo(S, n) == UNION {[1..k -> S] : k \in 0..n}

Text(str) == [k \in 1..Len(str) |-> TextChar(str[k])]

TextDocs ==
    {MakeDoc("text", ds) : ds \in SeqsUpTo({TextChar("a"), TextChar(" "), TextChar(".")},
                                           MaxTextLen)}
MathDocs ==
    {MakeDoc("math", ds) : ds \in SeqsUpTo({Mord("x"), Mopen, Mclose, Placeholder},
                                           MaxMathLen)}

DocBlueYellow ==
    MakeDoc("text", Text(<<"b", "l", "u", "e", " ", "y", "e", "l", "l", "o", "w">>))
DocFence == MakeDoc("math", <<Mopen, Mord("x"), Mclose, Mord("x")>>)
DocNestedFence ==
    MakeDoc("math", <<Mopen, Mord("a"), Mopen, Mord("b"), Mclose, Mord("x"), Mclose>>)
DocTextInMath == MakeDoc("math", <<Mord("x"), TextChar("a"), TextChar("b"), Mbin>>)
DocFraction == MakeDoc("math", <<Mord("x"), Genfrac(<<Mord("a")>>, <<Mord("b")>>), Mbin>>)
DocDenominator == MakeDoc("math", <<Denominator(<<Surd(<<Mord("y")>>)>>)>>)
DocEmptyFraction == MakeDoc("math", <<Genfrac(<<>>, <<Placeholder>>), Mord("x")>>)
DocSuperscript ==
    MakeDoc("math", <<Mord("x"), Superscript("mord", <<Mord("2")>>), Mord("y"), Mbin>>)
DocCapture == MakeDoc("math", <<Mord("x"), Capture(<<Mord("a"), Mord("b")>>), Mord("y")>>)
DocSkipGroup == MakeDoc("math", <<Mord("x"), SkipGroup(<<Mord("a")>>), Mord("y")>>)
DocPlaceholders == MakeDoc("math", <<Mord("x"), Placeholder, Mbin, Placeholder, Placeholder>>)
DocCommand == MakeDoc("math", <<Mord("x"), Command("a"), Command("l"), Command("1")>>)
DocSuggestion ==
    MakeDoc("math", <<Command("a"), Command("l"), Suggestion("p"), Suggestion("h")>>)

DocSkipCapture == MakeDoc("math", <<SkipGroup(<<Mord("a")>>), Capture(<<Mord("b")>>)>>)

StructuredDocs ==
    {DocBlueYellow, DocFence, DocNestedFence, DocTextInMath, DocFraction,
     DocDenominator, DocEmptyFraction, DocSuperscript, DocCapture, DocSkipGroup,
     DocSkipCapture, DocPlaceholders, DocCommand, DocSuggestion}

Docs == TextDocs \cup MathDocs \cup StructuredDocs

MaxNumberLen == 3   \* longest generated run of the atoms of a number

Mpunct == Desc("mpunct", "Atom", "math", ",")

NumberDocs ==
    {MakeDoc("math", ds) : ds \in SeqsUpTo({Mord("1"), Mord("."), Mpunct, Mbin},
                                           MaxNumberLen)}

DocNumberInFraction ==
    MakeDoc("math", <<Mord("1"), Genfrac(<<Mord("1"), Mord("2")>>, <<Mord("x")>>), Mord("2")>>)

GroupDocs ==
    TextDocs \cup NumberDocs \cup
    {DocBlueYellow, DocTextInMath, DocFraction, DocNumberInFraction}

---------------------------------------------------------------------------
(* The state machine *)

Directions == {"forward", "backward"}

NoEnv == [moveOut |-> FALSE, tabOut |-> FALSE, count |-> 1, index |-> -2, inner |-> "none"]

\* the host's tabbable elements and the index of document.activeElement
FocusEnvs ==
    {[NoEnv EXCEPT !.tabOut = TRUE, !.count = ci[1], !.index = ci[2]] :
        ci \in {x \in (1..MaxTabbable) \X (-2..(MaxTabbable - 1)) : x[2] < x[1]}}

calls(hooks, name) == \E k \in 1..Len(hooks) : hooks[k].hook = name

\* the answers the host can give to what a command asks it: the command
\* consulted the hooks `hooks` when run with the answers of NoEnv, and an
\* answer it does not ask for is left as in NoEnv
EnvsFor(hooks) ==
    {[e EXCEPT !.moveOut = mo] :
        mo \in (IF calls(hooks, "moveOut") THEN BOOLEAN ELSE {FALSE}),
        e \in (IF calls(hooks, "tabOut") THEN {NoEnv} \cup FocusEnvs ELSE {NoEnv})}

NoLast ==
    [cmd |-> "none", direction |-> "", extend |-> FALSE, env |-> NoEnv,
     ret |-> FALSE, err |-> FALSE, announced |-> <<>>, hooks |-> <<>>,
     steps |-> 0, focus |-> -1,
     prevPosition |-> 0, prevAnchor |-> 0, prevTree |-> <<>>]

\* the model object as a command finds it
Model ==
    [tree |-> tree, position |-> position, anchor |-> anchor,
     suppress |-> suppress, announced |-> <<>>, hooks |-> <<>>,
     err |-> FALSE, steps |-> 0, ret |-> FALSE, focus |-> -1]

\* the command cmd, run on Model, ended as r
Returns(cmd, direction, extend, env, r) ==
    /\ pc' = "returned"
    /\ tree' = r.tree
    /\ position' = r.position
    /\ anchor' = r.anchor
    /\ UNCHANGED suppress
    /\ last' = [cmd |-> cmd, direction |-> direction, extend |-> extend,
                env |-> env, ret |-> r.ret, err |-> r.err,
                announced |-> r.announced, hooks |-> r.hooks,
                steps |-> r.steps, focus |-> r.focus,
                prevPosition |-> position, prevAnchor |-> anchor,
                prevTree |-> tree]

Init ==
    /\ tree \in Docs
    /\ position \in 0..lastOffset(tree)
    /\ anchor = position
    /\ suppress = FALSE
    /\ pc = "idle"
    /\ last = NoLast

\* moveToNextChar, moveToPreviousChar, moveUp, moveDown, extendSelectionUpward,
\* extendSelectionDownward, and move as other modules call it
Move ==
    /\ pc = "idle"
    /\ \E direction \in {"forward", "backward", "upward", "downward"},
          extend \in BOOLEAN :
           \E env \in EnvsFor(move(Model, direction, extend, NoEnv).hooks) :
               Returns("move", direction, extend, env,
                       move(Model, direction, extend, env))

\* moveToNextWord, moveToPreviousWord, extendToNextWord, extendToPreviousWord
\* (and extendToNextBoundary, extendToPreviousBoundary)
Skip ==
    /\ pc = "idle"
    /\ \E direction \in Directions, extend \in BOOLEAN :
           Returns("skip", direction, extend, NoEnv, skip(Model, direction, extend))

\* moveToNextPlaceholder, moveToPreviousPlaceholder
Leap ==
    /\ pc = "idle"
    /\ \E direction \in Directions :
           \E env \in EnvsFor(leap(Model, direction, NoEnv).hooks) :
               Returns("leap", direction, FALSE, env, leap(Model, direction, env))

MoveAfterParent ==
    /\ pc = "idle"
    /\ Returns("moveAfterParent", "", FALSE, NoEnv, moveAfterParent(Model))

MoveBeforeParent ==
    /\ pc = "idle"
    /\ Returns("moveBeforeParent", "", FALSE, NoEnv, moveBeforeParent(Model))

\* a caller enters or leaves the scope in which notifications are suppressed
SetSuppressChangeNotifications ==
    /\ pc = "idle"
    /\ suppress' = ~suppress
    /\ UNCHANGED <<tree, position, anchor, pc, last>>

\* the caller takes the command's result; the model waits for the next command
Return ==
    /\ pc = "returned"
    /\ pc' = "idle"
    /\ last' = NoLast
    /\ UNCHANGED <<tree, position, anchor, suppress>>

Next ==
    \/ Move
    \/ Skip
    \/ Leap
    \/ MoveAfterParent
    \/ MoveBeforeParent
    \/ SetSuppressChangeNotifications
    \/ Return

Spec == Init /\ [][Next]_vars

---------------------------------------------------------------------------
(* selectGroup, from any selection *)

InitGroup ==
    /\ tree \in GroupDocs
    /\ position \in 0..lastOffset(tree)
    /\ anchor \in 0..lastOffset(tree)
    /\ suppress = FALSE
    /\ pc = "idle"
    /\ last = NoLast

\* the command selectGroup
SelectGroup ==
    /\ pc = "idle"
    /\ Returns("selectGroup", "", FALSE, NoEnv, plonkUnless(selectGroup(Model)))

NextGroup ==
    \/ SelectGroup
    \/ Return

SpecGroup == InitGroup /\ [][NextGroup]_vars

---------------------------------------------------------------------------
(* move and leap with hooks that call a command of the model *)

\* the answers of a host whose hooks, when a command consults them, call a
\* command of the model before they return
EnvsCalling(hooks) ==
    {[e EXCEPT !.inner = c] : e \in EnvsFor(hooks), c \in HostCommands}

\* move, consulting the moveOut hook
MoveOut ==
    /\ pc = "idle"
    /\ \E direction \in {"forward", "backward", "upward", "downward"} :
           /\ move(Model, direction, FALSE, NoEnv).hooks # <<>>
           /\ \E env \in EnvsCalling(move(Model, direction, FALSE, NoEnv).hooks) :
                  Returns("move", direction, FALSE, env,
                          move(Model, direction, FALSE, env))

\* leap, consulting the tabOut hook
TabOut ==
    /\ pc = "idle"
    /\ \E direction \in Directions :
           /\ leap(Model, direction, NoEnv).hooks # <<>>
           /\ \E env \in EnvsCalling(leap(Model, direction, NoEnv).hooks) :
                  Returns("leap", direction, FALSE, env, leap(Model, direction, env))

NextCalling ==
    \/ MoveOut
    \/ TabOut
    \/ SetSuppressChangeNotifications
    \/ Return

SpecCalling == Init /\ [][NextCalling]_vars

---------------------------------------------------------------------------
(* the commands that change the shape of the tree *)

MaxAtoms == 8       \* most atoms ever allocated for a document

Mop(v, limits) == [Desc("mop", "Atom", "math", v) EXCEPT !.limits = limits]

DocLimits == MakeDoc("math", <<Mop("sum", "limits"), Mord("x")>>)
DocOperator == MakeDoc("math", <<Mop("sin", "nolimits")>>)
DocScript == MakeDoc("math", <<Mord("x"), Superscript("mord", <<Mord("2")>>)>>)
Subscript(baseType, sub) ==
    WithKids([Desc("msubsup", "Atom", "math", "zwsp") EXCEPT !.baseType = baseType],
             <<<<"subscript", sub>>>>)
DocSubscript == MakeDoc("math", <<Mord("x"), Subscript("mord", <<Mord("2")>>)>>)
DocBelow == MakeDoc("math", <<Denominator(<<Mord("y")>>)>>)
DocAbove == MakeDoc("math", <<Genfrac(<<Mord("a")>>, <<>>)>>)

ShapeDocs ==
    {DocScript, DocSubscript, DocBelow, DocAbove, DocSuggestion,
     DocLimits, DocOperator, MakeDoc("math", <<Mord("x")>>)}

InitShape ==
    /\ tree \in ShapeDocs
    /\ position \in 0..lastOffset(tree)
    /\ anchor = position
    /\ suppress = FALSE
    /\ pc = "idle"
    /\ last = NoLast

\* a command that may add atoms has room for them
HasRoom == Len(tree) + 2 <= MaxAtoms

\* the command moveToSuperscript
MoveToSuperscript ==
    /\ pc = "idle"
    /\ HasRoom
    /\ Returns("moveToSuperscript", "", FALSE, NoEnv, moveToSuperscript(Model))

\* the command moveToSubscript
MoveToSubscript ==
    /\ pc = "idle"
    /\ HasRoom
    /\ Returns("moveToSubscript", "", FALSE, NoEnv, moveToSubscript(Model))

\* the command moveToOpposite
MoveToOpposite ==
    /\ pc = "idle"
    /\ HasRoom
    /\ Returns("moveToOpposite", "", FALSE, NoEnv, moveToOpposite(Model))

\* move, which deletes the suggestions of the command mode and, upward or
\* downward, creates the branch it enters
MoveShape ==
    /\ pc = "idle"
    /\ HasRoom
    /\ \E direction \in {"forward", "backward", "upward", "downward"},
          extend \in BOOLEAN :
           Returns("move", direction, extend, NoEnv,
                   move(Model, direction, extend, NoEnv))

\* moveToNextWord, moveToPreviousWord
SkipShape ==
    /\ pc = "idle"
    /\ \E direction \in Directions :
           Returns("skip", direction, FALSE, NoEnv, skip(Model, direction, FALSE))

NextShape ==
    \/ MoveToSuperscript
    \/ MoveToSubscript
    \/ MoveToOpposite
    \/ MoveShape
    \/ SkipShape
    \/ Return

SpecShape == InitShape /\ [][NextShape]_vars

---------------------------------------------------------------------------
(* the delete commands, and the word navigation they are compared with *)

DeleteDocs == TextDocs \cup {DocTextInMath, DocFraction, DocCapture}

InitDelete ==
    /\ tree \in DeleteDocs
    /\ position \in 0..lastOffset(tree)
    /\ anchor \in 0..lastOffset(tree)
    /\ suppress = FALSE
    /\ pc = "idle"
    /\ last = NoLast

\* deleteAll, deleteNextWord, deletePreviousWord, deleteToGroupStart,
\* deleteToGroupEnd, deleteToMathFieldStart, deleteToMathFieldEnd
Delete ==
    /\ pc = "idle"
    /\ \E cmd \in DeleteCommands :
           Returns(cmd, "", FALSE, NoEnv, deleteCommand(Model, cmd))

NextDelete ==
    \/ Delete
    \/ Return

SpecDelete == InitDelete /\ [][NextDelete]_vars

---------------------------------------------------------------------------
(* leap forward, again and again, from the start of the document *)

MaxLeapLen == 3     \* longest generated run of placeholders and symbols

LeapDocs ==
    {MakeDoc("math", ds) : ds \in SeqsUpTo({Mord("x"), Placeholder}, MaxLeapLen)}
    \cup {DocPlaceholders, DocEmptyFraction}

InitLeap ==
    /\ tree \in LeapDocs
    /\ position = 0
    /\ anchor = 0
    /\ suppress = FALSE
    /\ pc = "idle"
    /\ last = NoLast

\* moveToNextPlaceholder
LeapForward ==
    /\ pc = "idle"
    /\ \E env \in EnvsFor(leap(Model, "forward", NoEnv).hooks) :
           Returns("leap", "forward", FALSE, env, leap(Model, "forward", env))

NextLeap ==
    \/ LeapForward
    \/ Return

SpecLeap == InitLeap /\ [][NextLeap]_vars

---------------------------------------------------------------------------
(* the moves to the start and the end of the group and of the mathfield, *)
(* from any selection                                                     *)

MoveToGroupStart ==
    /\ pc = "idle"
    /\ Returns("moveToGroupStart", "", FALSE, NoEnv, moveToGroupStart(Model))

MoveToGroupEnd ==
    /\ pc = "idle"
    /\ Returns("moveToGroupEnd", "", FALSE, NoEnv, moveToGroupEnd(Model))

MoveToMathFieldStart ==
    /\ pc = "idle"
    /\ Returns("moveToMathFieldStart", "", FALSE, NoEnv, moveToMathFieldStart(Model))

MoveToMathFieldEnd ==
    /\ pc = "idle"
    /\ Returns("moveToMathFieldEnd", "", FALSE, NoEnv, moveToMathFieldEnd(Model))

NextBoundary ==
    \/ MoveToGroupStart
    \/ MoveToGroupEnd
    \/ MoveToMathFieldStart
    \/ MoveToMathFieldEnd
    \/ Return

SpecBoundary == InitGroup /\ [][NextBoundary]_vars

---------------------------------------------------------------------------
(* What the claims speak of *)

Returned(cmd) == pc = "returned" /\ last.cmd = cmd

Announced(kind) == \E k \in 1..Len(last.announced) : last.announced[k] = kind

\* the model object the last command found
Prev ==
    [Model EXCEPT !.tree = last.prevTree, !.position = last.prevPosition,
                  !.anchor = last.prevAnchor]

\* ... once move has cleared a pending command suggestion
PrevCleared == deleteRange(Prev, getCommandSuggestionRange(last.prevTree))

PrevInRange ==
    /\ last.prevPosition \in 0..lastOffset(last.prevTree)
    /\ last.prevAnchor \in 0..lastOffset(last.prevTree)

PrevCollapsed == last.prevPosition = last.prevAnchor

Unchanged ==
    /\ position = last.prevPosition
    /\ anchor = last.prevAnchor
    /\ tree = last.prevTree

\* C1: in every reachable state position and anchor lie in [0, lastOffset],
\* and a command whose target offset falls outside that range (here
\* moveAfterParent, whose target is the offset of the parent) leaves
\* position, anchor and the tree unchanged.
C1_OffsetsInRange ==
    /\ position \in 0..lastOffset(tree)
    /\ anchor \in 0..lastOffset(tree)
    /\ (Returned("moveAfterParent") /\ PrevInRange /\ ~last.err
        /\ offsetOf(last.prevTree,
                    last.prevTree[at(last.prevTree, last.prevPosition)].parent)
             \notin 0..lastOffset(last.prevTree))
       => Unchanged

HorizontalMove ==
    /\ Returned("move")
    /\ last.direction \in {"forward", "backward"}
    /\ ~last.extend

\* where a horizontal move starts stepping from: a pending command
\* suggestion cleared, a selected placeholder collapsed toward the direction
MoveStart ==
    IF selectionIsPlaceholder(PrevCleared)
    THEN collapseSelection(PrevCleared, last.direction)
    ELSE PrevCleared

UnchangedSinceStart ==
    /\ position = MoveStart.position
    /\ anchor = MoveStart.anchor
    /\ tree = MoveStart.tree

\* C2 (as stated): move(forward|backward) without extend returns false
\* exactly when position, anchor and tree are unchanged and a plonk was
\* emitted; otherwise it returns true.
C2_FalseIffUnchangedAndPlonk ==
    HorizontalMove => (~last.ret <=> (Unchanged /\ Announced("plonk")))

\* C2 (amended): move(forward|backward) without extend returns false exactly
\* when it invoked the moveOut hook and the hook answered false; nothing is
\* then announced, and position, anchor and tree stay as they were once a
\* pending suggestion was cleared and a selected placeholder collapsed.
\* Otherwise it returns true, and the plonk is emitted exactly on a move out
\* of the document that was suppressed or that the hook answered with true,
\* which leaves the state in the same way.
C2_FalseIffHookDeclined ==
    HorizontalMove =>
        /\ ~last.ret <=> (calls(last.hooks, "moveOut") /\ ~last.env.moveOut)
        /\ ~last.ret => (UnchangedSinceStart /\ last.announced = <<>>)
        /\ Announced("plonk") <=>
              /\ MoveStart.position = MoveStart.anchor
              /\ moveCandidate(MoveStart, last.direction)
                    \notin 0..lastOffset(MoveStart.tree)
              /\ (suppress \/ last.env.moveOut)
        /\ Announced("plonk") => (last.ret /\ UnchangedSinceStart)

\* a move out of the document that the host's moveOut hook answered with false
C2_Witness ==
    /\ HorizontalMove
    /\ PrevCollapsed /\ PrevInRange
    /\ calls(last.hooks, "moveOut")
    /\ ~last.env.moveOut
    /\ ~last.ret

\* the command consulted the host: move through moveOut, leap through tabOut
AskedMoveOut == Returned("move") /\ ~last.err /\ calls(last.hooks, "moveOut")

AskedTabOut == Returned("leap") /\ ~last.err /\ calls(last.hooks, "tabOut")

\* the index of the element leap gives the focus to, as the code computes it
LeapIndex ==
    LET i == last.env.index + (IF last.direction = "forward" THEN 1 ELSE -1)
    IN IF i < 0 THEN last.env.count - 1
       ELSE IF i >= last.env.count THEN 0 ELSE i

VerticalMove == Returned("move") /\ last.direction \in {"upward", "downward"}

\* where a vertical move starts looking from: a pending command suggestion
\* cleared, the selection collapsed (backward going up, forward going down)
VerticalStart ==
    collapseSelection(PrevCleared,
                      IF last.direction = "upward" THEN "backward" ELSE "forward")

\* the move was one out of the document: a forward / backward step from a
\* caret whose candidate offset is out of range, or an upward / downward move
\* from the top level with no branch to go to
EdgeMove ==
    /\ ~last.err
    /\ \/ /\ HorizontalMove
          /\ MoveStart.position = MoveStart.anchor
          /\ moveCandidate(MoveStart, last.direction)
                \notin 0..lastOffset(MoveStart.tree)
       \/ /\ VerticalMove
          /\ LET t == VerticalStart.tree
                 a == at(t, VerticalStart.position)
             IN /\ a # Undefined
                /\ ancestorInBranch(t, a, IF last.direction = "upward"
                                          THEN "below" ELSE "above") = Undefined
                /\ t[a].parent = Root

\* C4 (as stated): while suppressChangeNotifications is active no move
\* invokes moveOut, and a move out of the document leaves position and
\* anchor unchanged and emits plonk.
C4_SuppressedEdgeUnchanged ==
    (Returned("move") /\ suppress) =>
        /\ last.hooks = <<>>
        /\ EdgeMove => /\ position = last.prevPosition
                       /\ anchor = last.prevAnchor
                       /\ Announced("plonk")

\* C4 (amended): while suppressChangeNotifications is active no move
\* invokes moveOut; a move out of the document then emits plonk, returns
\* true and leaves the caret where the move started from, which is the
\* earlier position and anchor only if the selection was collapsed and no
\* command suggestion was pending: an upward (downward) move first collapses
\* the selection backward (forward), a forward / backward move first
\* collapses a selected placeholder.
C4_SuppressedEdgePlonks ==
    (Returned("move") /\ suppress) =>
        /\ last.hooks = <<>>
        /\ EdgeMove =>
              /\ Announced("plonk")
              /\ last.ret
              /\ IF VerticalMove
                 THEN position = VerticalStart.position
                      /\ anchor = VerticalStart.position
                 ELSE position = MoveStart.position
                      /\ anchor = MoveStart.position
              /\ (PrevCollapsed /\ PrevCleared = Prev)
                    => (position = last.prevPosition /\ anchor = last.prevAnchor)

\* a suppressed upward move at the top of the document from a selection
C4_Witness ==
    /\ Returned("move") /\ suppress
    /\ EdgeMove
    /\ last.direction = "upward"
    /\ last.prevPosition # last.prevAnchor
    /\ Announced("plonk")

NoBoundaryAtoms(t) ==
    \A a \in DOMAIN t : ~t[a].captureSelection /\ ~t[a].skipBoundary

\* a forward move without extend succeeded from a caret collapsed strictly
\* inside the document, no skipBoundary or captureSelection atom around
ForwardFromInside ==
    /\ HorizontalMove
    /\ last.direction = "forward"
    /\ PrevCollapsed
    /\ last.prevPosition > 0
    /\ last.prevPosition < lastOffset(last.prevTree)
    /\ NoBoundaryAtoms(last.prevTree)
    /\ last.ret /\ ~last.err

\* move(backward) run on the state the forward move left lands at P
BackwardLandsAtPrev ==
    \A mo \in BOOLEAN :
        LET b == move(Model, "backward", FALSE, [NoEnv EXCEPT !.moveOut = mo])
        IN b.ret /\ b.position = last.prevPosition /\ b.anchor = last.prevPosition

\* C5 (as stated): from a caret collapsed at P with 0 < P < lastOffset and no
\* skipBoundary or captureSelection atom involved, a successful
\* move(forward) followed by move(backward) lands the caret at P again.
C5_ForwardBackwardReturns == ForwardFromInside => BackwardLandsAtPrev

NoSuggestion(t) == \A i \in 0..lastOffset(t) : ~isSuggestionAt(t, i)

\* C5 (amended): the round trip lands at P again provided, besides, no
\* command suggestion is pending and neither the atom at P nor the atom at
\* P + 1 is a placeholder.
C5_RoundTripAwayFromPlaceholders ==
    (/\ ForwardFromInside
     /\ NoSuggestion(last.prevTree)
     /\ typeOf(last.prevTree, at(last.prevTree, last.prevPosition)) # "placeholder"
     /\ typeOf(last.prevTree, at(last.prevTree, last.prevPosition + 1))
           # "placeholder")
       => BackwardLandsAtPrev

\* a forward step into a branch of a fraction, which a backward step undoes
C5_Witness ==
    /\ ForwardFromInside
    /\ NoSuggestion(last.prevTree)
    /\ typeOf(last.prevTree, at(last.prevTree, last.prevPosition)) # "placeholder"
    /\ typeOf(tree, at(tree, position)) = "first"
    /\ position = last.prevPosition + 1
    /\ BackwardLandsAtPrev

\* the candidate offset of the last forward / backward move
MoveTarget == moveCandidate(PrevCleared, last.direction)

\* a move without extend from a collapsed caret to an in-range candidate
SteppedFromCaret ==
    /\ HorizontalMove
    /\ PrevCollapsed /\ PrevInRange
    /\ last.ret /\ ~last.err
    /\ MoveTarget \in 0..lastOffset(PrevCleared.tree)

\* the selection covers exactly the one atom at the offset o
Covers(o) ==
    /\ (IF anchor < position THEN anchor ELSE position) = o - 1
    /\ (IF anchor < position THEN position ELSE anchor) = o

CaretAt(o) == position = o /\ anchor = o

\* C6 (as stated): after a successful move without extend from a collapsed
\* caret to an in-range candidate, if the destination atom (forward) or the
\* destination's right sibling (backward) is a placeholder the selection
\* covers exactly that placeholder; otherwise the caret is at the candidate.
C6_PlaceholderByDirection ==
    SteppedFromCaret =>
        LET dest == at(tree, MoveTarget)
            right == rightSibling(tree, dest)
        IN IF last.direction = "forward"
           THEN IF typeOf(tree, dest) = "placeholder"
                THEN Covers(MoveTarget) ELSE CaretAt(MoveTarget)
           ELSE IF typeOf(tree, right) = "placeholder"
                THEN Covers(offsetOf(tree, right)) ELSE CaretAt(MoveTarget)

\* C6 (amended): in both directions, if the atom at the candidate offset is
\* a placeholder the selection covers exactly it (anchor before it, position
\* on it); else if its right sibling is a placeholder the selection covers
\* exactly that sibling (anchor at the candidate, position on the sibling);
\* otherwise the caret is collapsed at the candidate.
C6_PlaceholderEitherDirection ==
    SteppedFromCaret =>
        LET dest == at(tree, MoveTarget)
            right == rightSibling(tree, dest)
        IN IF typeOf(tree, dest) = "placeholder"
           THEN anchor = MoveTarget - 1 /\ position = MoveTarget
           ELSE IF typeOf(tree, right) = "placeholder"
           THEN /\ anchor = MoveTarget /\ position = MoveTarget + 1
                /\ at(tree, position) = right
           ELSE CaretAt(MoveTarget)

\* a forward step that stopped left of a placeholder and selected it
C6_Witness ==
    /\ SteppedFromCaret
    /\ last.direction = "forward"
    /\ typeOf(tree, at(tree, MoveTarget)) # "placeholder"
    /\ typeOf(tree, at(tree, MoveTarget + 1)) = "placeholder"
    /\ anchor = MoveTarget /\ position = MoveTarget + 1

\* the atom at offset i is a text-mode alphanumeric character
IsWordAtom(t, i) ==
    LET a == at(t, i)
    IN /\ a # Undefined
       /\ t[a].cls = "TextAtom"
       /\ t[a].mode = "text"
       /\ t[a].value \in Letters \cup Digits

\* a skip without extend from a collapsed caret inside the document
SkippedFromCaret ==
    /\ Returned("skip")
    /\ ~last.extend
    /\ PrevCollapsed /\ PrevInRange

\* the far end, as a caret offset, of the maximal run of text-mode
\* alphanumeric atoms next to the caret at p in the direction
RunEnd(t, p, direction) ==
    IF direction = "forward"
    THEN CHOOSE k \in (p + 1)..lastOffset(t) :
            /\ \A j \in (p + 1)..k : IsWordAtom(t, j)
            /\ ~IsWordAtom(t, k + 1)
    ELSE (CHOOSE k \in 0..p :
            /\ \A j \in k..p : IsWordAtom(t, j)
            /\ ~IsWordAtom(t, k - 1)) - 1

\* C7: for a collapsed caret whose adjacent atom in the skip direction is a
\* text-mode alphanumeric atom, skip places the caret at the far end of the
\* maximal run of such atoms starting there, in both directions and whatever
\* follows the run.
C7_WordSkipToRunEnd ==
    (/\ SkippedFromCaret
     /\ IsWordAtom(last.prevTree,
                   IF last.direction = "forward" THEN last.prevPosition + 1
                   ELSE last.prevPosition))
       => /\ ~last.err
          /\ CaretAt(RunEnd(last.prevTree, last.prevPosition, last.direction))

\* the index among its siblings s of the close fence matching the open fence
\* s[k]; 0 when there is none
MatchingClose(t, s, k) ==
    LET depth(j) == Cardinality({i \in k..j : t[s[i]].type = "mopen"})
                    - Cardinality({i \in k..j : t[s[i]].type = "mclose"})
        M == {j \in (k + 1)..Len(s) : depth(j) = 0}
    IN IF M = {} THEN 0 ELSE CHOOSE j \in M : \A i \in M : j <= i

\* C8: when the atom right of the caret is an open fence with a matching
\* close fence among its right siblings, skip(forward) lands just before
\* that close fence, at the offset of the close fence's left sibling, whether
\* or not the close fence is the last sibling of its branch.
C8_FenceSkipBeforeClose ==
    (/\ SkippedFromCaret
     /\ last.direction = "forward"
     /\ typeOf(last.prevTree, at(last.prevTree, last.prevPosition)) # "msubsup"
     /\ typeOf(last.prevTree, at(last.prevTree, last.prevPosition + 1)) = "mopen")
       => LET t == last.prevTree
              open == at(t, last.prevPosition + 1)
              s == siblings(t, open)
              close == MatchingClose(t, s, indexOf(s, open) + 1)
          IN close # 0 =>
                /\ ~last.err
                /\ CaretAt(offsetOf(t, s[close - 1]))

\* C9: skip ends, in both directions and with or without extend, after at
\* most lastOffset + 1 iterations of its loops.
C9_SkipStepsBounded ==
    Returned("skip") => last.steps <= lastOffset(last.prevTree) + 1

\* a skip that ran lastOffset + 1 iterations: a backward word skip from the
\* end of a text of three letters
C9_Witness ==
    /\ Returned("skip")
    /\ ~last.err
    /\ lastOffset(last.prevTree) >= 3
    /\ last.steps = lastOffset(last.prevTree) + 1

\* C10: no command raises an error on a boundary condition, skip(forward)
\* before an unbalanced or last-sibling open fence and skip(backward) after
\* an unbalanced close fence included: each returns a boolean.
C10_NoCommandThrows ==
    (pc = "returned" /\ PrevInRange) => ~last.err

\* the type an atom counts with in a run: a superscript / subscript container
\* counts with its base
BoundaryType(t, a) ==
    IF t[a].cls = "SubsupAtom" THEN t[a].baseType ELSE t[a].type

\* the atom next to the caret at p in the direction
Adjacent(t, p, direction) ==
    IF direction = "forward" THEN at(t, p + 1) ELSE at(t, p)

\* an atom of a math zone that is neither a fence nor the start of a branch
IsMathRunAtom(t, a) ==
    /\ a # Undefined
    /\ t[a].cls \in {"Atom", "SubsupAtom"}
    /\ t[a].mode = "math"
    /\ BoundaryType(t, a) \notin {"first", "mopen", "mclose"}

\* the far end, as a caret offset, of the maximal run of consecutive
\* siblings of a, from a on in the direction, that count with the type of a
MathRunEnd(t, a, direction) ==
    LET s == siblings(t, a)
        k == indexOf(s, a) + 1
        InRun(i) == BoundaryType(t, s[i]) = BoundaryType(t, a)
    IN IF direction = "forward"
       THEN offsetOf(t, s[CHOOSE j \in k..Len(s) :
                            /\ \A i \in k..j : InRun(i)
                            /\ j < Len(s) => ~InRun(j + 1)])
       ELSE offsetOf(t, s[(CHOOSE j \in 1..k :
                             /\ \A i \in j..k : InRun(i)
                             /\ j > 1 => ~InRun(j - 1)) - 1])

\* C11: in a math zone with no fence next to the caret, skip moves the
\* position to the far end of the maximal run of consecutive siblings that
\* count with the type of the atom next to the caret, a superscript or
\* subscript container counting with its base; with extend the anchor stays
\* where the caret was, so that the selection covers exactly that run.
C11_MathRunSkip ==
    (/\ Returned("skip")
     /\ PrevCollapsed /\ PrevInRange
     /\ typeOf(last.prevTree, at(last.prevTree, last.prevPosition)) # "msubsup"
     /\ IsMathRunAtom(last.prevTree,
                      Adjacent(last.prevTree, last.prevPosition, last.direction)))
       => /\ ~last.err
          /\ position = MathRunEnd(last.prevTree,
                                   Adjacent(last.prevTree, last.prevPosition,
                                            last.direction),
                                   last.direction)
          /\ anchor = (IF last.extend THEN last.prevPosition ELSE position)

\* the atom at offset i is a digit or '.' of type mord, or a ',' of type mpunct
IsNumeric(t, i) ==
    /\ at(t, i) # Undefined
    /\ \/ t[at(t, i)].type = "mord" /\ t[at(t, i)].value \in {"1", "2", "."}
       \/ t[at(t, i)].type = "mpunct" /\ t[at(t, i)].value = ","

\* selectGroup ran in a math zone on a selection whose focused atom, the atom
\* at the position, is numeric
GroupOfNumber ==
    /\ Returned("selectGroup")
    /\ PrevInRange
    /\ last.prevTree[at(last.prevTree, last.prevPosition)].mode = "math"
    /\ IsNumeric(last.prevTree, last.prevPosition)

\* the selection covers exactly the atoms at the offsets lo..hi
SelectionCovers(lo, hi) ==
    /\ min(anchor, position) = lo - 1
    /\ max(anchor, position) = hi

\* the selection covers exactly the maximal run of numeric atoms around
\* the offset p
CoversNumberAt(t, p) ==
    \E lo \in 1..p, hi \in p..lastOffset(t) :
        /\ \A i \in lo..hi : IsNumeric(t, i)
        /\ ~IsNumeric(t, lo - 1)
        /\ ~IsNumeric(t, hi + 1)
        /\ SelectionCovers(lo, hi)

\* the atoms the selection covered before the command are all numeric
PrevSelectionNumeric ==
    \A i \in (min(last.prevAnchor, last.prevPosition) + 1)..
             max(last.prevAnchor, last.prevPosition) :
        IsNumeric(last.prevTree, i)

\* C12 (as stated): selectGroup in a math zone with the focused atom numeric
\* selects exactly the maximal contiguous run of numeric atoms that contains
\* the focused atom, and no atom outside the run.
C12_NumberRunSelected ==
    GroupOfNumber =>
        /\ ~last.err /\ last.ret
        /\ tree = last.prevTree
        /\ CoversNumberAt(last.prevTree, last.prevPosition)

\* C12 (amended): ... when the selection is collapsed or covers numeric atoms
\* only; the selection then covers exactly the maximal contiguous run of
\* numeric atoms that contains the focused atom, the anchor before the run
\* and the position on its last atom.
C12_NumberRunFromWithin ==
    (GroupOfNumber /\ PrevSelectionNumeric) =>
        /\ ~last.err /\ last.ret
        /\ tree = last.prevTree
        /\ CoversNumberAt(last.prevTree, last.prevPosition)
        /\ anchor < position

\* the number '1,.' selected from a caret after its first digit
C12_Witness ==
    /\ GroupOfNumber
    /\ PrevCollapsed
    /\ last.prevPosition = 1
    /\ IsNumeric(last.prevTree, 2) /\ last.prevTree[at(last.prevTree, 2)].type = "mpunct"
    /\ IsNumeric(last.prevTree, 3)
    /\ anchor = 0 /\ position = 3

\* selectGroup ran in a text zone, on a selection after the first atom of
\* the text
GroupOfText ==
    /\ Returned("selectGroup")
    /\ PrevInRange
    /\ min(last.prevAnchor, last.prevPosition) >= 1
    /\ last.prevTree[at(last.prevTree, last.prevPosition)].mode = "text"

\* the lower end of the selection lo..hi expanded over the alphanumeric
\* text atoms before it
WordLow(t, lo) ==
    CHOOSE s \in 0..lo :
        /\ \A i \in (s + 1)..lo : IsWordAtom(t, i)
        /\ ~IsWordAtom(t, s)

\* the upper end expanded over the alphanumeric text atoms after it
WordHigh(t, hi) ==
    CHOOSE e \in hi..lastOffset(t) :
        /\ \A i \in (hi + 1)..e : IsWordAtom(t, i)
        /\ ~IsWordAtom(t, e + 1)

\* C13: selectGroup in a text zone selects exactly the maximal run of
\* alphanumeric text atoms around the current selection, each end expanded
\* independently, also when the run starts at offset 0 or ends at lastOffset;
\* when there is no such run it selects exactly one character, both ends of
\* the selection within [0, lastOffset].
C13_WordSelected ==
    GroupOfText =>
        LET t == last.prevTree
            lo == WordLow(t, min(last.prevAnchor, last.prevPosition))
            hi == WordHigh(t, max(last.prevAnchor, last.prevPosition))
        IN /\ ~last.err /\ last.ret
           /\ position \in 0..lastOffset(t)
           /\ anchor \in 0..lastOffset(t)
           /\ IF lo < hi
              THEN anchor = lo /\ position = hi
              ELSE max(anchor, position) - min(anchor, position) = 1

\* the atom at offset i is a placeholder, or the only atom of a branch of an
\* atom other than the root
IsLeapTarget(t, i) ==
    /\ at(t, i) # Undefined
    /\ \/ t[at(t, i)].type = "placeholder"
       \/ /\ t[at(t, i)].parent # Root
          /\ siblings(t, at(t, i)) = <<at(t, i)>>

\* the leap targets strictly beyond the offset p in the direction
LeapTargets(t, p, direction) ==
    {i \in 0..lastOffset(t) :
        /\ IsLeapTarget(t, i)
        /\ IF direction = "forward" THEN i > p ELSE i < p}

\* the one of them nearest to p
NearestTarget(t, p, direction) ==
    CHOOSE i \in LeapTargets(t, p, direction) :
        \A j \in LeapTargets(t, p, direction) :
            IF direction = "forward" THEN i <= j ELSE i >= j

\* C14: leap goes to the nearest candidate strictly beyond the caret in the
\* direction, the candidate with the smallest offset greater than the
\* position going forward and with the greatest offset smaller than the
\* position going backward; a placeholder becomes a selection of one atom,
\* an empty branch the position of the caret.
C14_LeapToNearest ==
    (/\ Returned("leap")
     /\ PrevCollapsed /\ PrevInRange
     /\ typeOf(last.prevTree, at(last.prevTree, last.prevPosition)) # "placeholder"
     /\ LeapTargets(last.prevTree, last.prevPosition, last.direction) # {})
       => LET t == last.prevTree
              target == NearestTarget(t, last.prevPosition, last.direction)
          IN /\ ~last.err /\ last.ret
             /\ position = target
             /\ anchor = (IF t[at(t, target)].type = "placeholder"
                          THEN target - 1 ELSE target)

\* where leap starts looking for candidates: past a placeholder at the anchor
LeapStart ==
    IF typeOf(last.prevTree, at(last.prevTree, last.prevAnchor)) = "placeholder"
    THEN move(Prev, last.direction, FALSE, last.env)
    ELSE Prev

RECURSIVE AncestorsOrSelf(_, _)
\* the atom a and its ancestors
AncestorsOrSelf(t, a) ==
    IF a = Undefined THEN {} ELSE {a} \cup AncestorsOrSelf(t, t[a].parent)

\* the atom a and its ancestors that lie in a branch of the given name
InBranch(t, a, name) == {x \in AncestorsOrSelf(t, a) : t[x].treeBranch = name}

\* the owner of the branch that holds the nearest of them
NearestOwner(t, a, name) ==
    t[CHOOSE x \in InBranch(t, a, name) :
         \A y \in InBranch(t, a, name) : y \in AncestorsOrSelf(t, x)].parent

\* the branch a vertical move leaves, and the branch it goes to
FromBranch == IF last.direction = "upward" THEN "below" ELSE "above"

ToBranch == IF last.direction = "upward" THEN "above" ELSE "below"

\* a vertical move from a caret in the document, of which the atom or an
\* ancestor lies in the branch the move leaves
VerticalFromBranch ==
    /\ VerticalMove
    /\ PrevCollapsed /\ PrevInRange
    /\ NoSuggestion(last.prevTree)
    /\ InBranch(last.prevTree, at(last.prevTree, last.prevPosition), FromBranch) # {}

\* the owner of the branch the vertical move goes to
VerticalOwner ==
    NearestOwner(last.prevTree, at(last.prevTree, last.prevPosition), FromBranch)

\* C16: a moveUpward (moveDownward) that does not extend, from a caret whose
\* atom or one of whose ancestors lies in a 'below' ('above') branch, places
\* the caret at the last atom of the 'above' ('below') branch of the owner
\* of the nearest such ancestor; a branch that does not exist is created
\* with its 'first' atom only, and the caret ends inside it.
C16_VerticalEntersBranch ==
    (VerticalFromBranch /\ ~last.extend) =>
        LET old == last.prevTree[VerticalOwner].branch[ToBranch]
            new == tree[VerticalOwner].branch[ToBranch]
        IN /\ ~last.err /\ last.ret
           /\ IF old # <<>> THEN tree = last.prevTree
              ELSE /\ Len(tree) = Len(last.prevTree) + 1
                   /\ new = <<Len(tree)>>
                   /\ tree[Len(tree)].type = "first"
                   /\ \A a \in DOMAIN last.prevTree :
                         a \notin {Root, VerticalOwner} => tree[a] = last.prevTree[a]
           /\ position \in 0..lastOffset(tree)
           /\ at(tree, position) = new[Len(new)]
           /\ anchor = position

\* an upward move from a denominator whose fraction had no numerator
C16_Witness ==
    /\ VerticalFromBranch /\ ~last.extend
    /\ last.direction = "upward"
    /\ last.prevTree[VerticalOwner].branch["above"] = <<>>
    /\ tree[VerticalOwner].branch["above"] # <<>>
    /\ tree[at(tree, position)].treeBranch = "above"

\* a vertical move of which, once the selection is collapsed, the atom at
\* the caret or one of its ancestors lies in the branch the move leaves
VerticalFromBranchAt ==
    /\ VerticalMove
    /\ PrevInRange
    /\ InBranch(VerticalStart.tree,
                at(VerticalStart.tree, VerticalStart.position), FromBranch) # {}

\* the owner of the branch such a move goes to
VerticalOwnerAt ==
    NearestOwner(VerticalStart.tree,
                 at(VerticalStart.tree, VerticalStart.position), FromBranch)

\* C17: a moveUpward / moveDownward that extends and finds an ancestor in the
\* branch it leaves sets the selection from the offset of the left sibling of
\* the owner to the offset of the owner, and leaves the tree as moveUpward /
\* moveDownward found it: it creates no branch.
C17_VerticalExtendSelectsOwner ==
    (VerticalFromBranchAt /\ last.extend) =>
        /\ ~last.err /\ last.ret
        /\ tree = VerticalStart.tree
        /\ anchor = offsetOf(tree, leftSibling(tree, VerticalOwnerAt))
        /\ position = offsetOf(tree, VerticalOwnerAt)
        /\ anchor \in 0..lastOffset(tree)

\* an extending upward move from the denominator of a fraction without a
\* numerator: the fraction is selected and still has no numerator
C17_Witness ==
    /\ VerticalFromBranchAt /\ last.extend
    /\ last.direction = "upward"
    /\ tree[VerticalOwnerAt].branch["above"] = <<>>
    /\ position = offsetOf(tree, VerticalOwnerAt)
    /\ anchor < position

\* the last command is one the editor exposes: move with extend is exposed
\* upward and downward only
ExposedCommand ==
    /\ pc = "returned"
    /\ ~(last.cmd = "move" /\ last.extend /\ last.direction \in Directions)

\* C18: every call of an exposed command that leaves position, anchor and
\* tree unchanged returns false and emits a plonk (the host not having been
\* asked through a hook, and notifications not being suppressed): so do
\* moveUp / moveDown from a caret nested in a branch none of whose ancestors
\* lies in a 'below' / 'above' branch.
C18_NoOpSoftFails ==
    (/\ ExposedCommand
     /\ PrevInRange
     /\ ~last.err
     /\ ~suppress
     /\ last.hooks = <<>>
     /\ Unchanged)
       => (~last.ret /\ Announced("plonk"))

\* the last call of a hook by the last command
LastHook == last.hooks[Len(last.hooks)]

\* C19: when a moveOut or tabOut hook called by move (forward, backward,
\* upward, downward) or leap itself calls a command of the model that sets
\* position and anchor, position and anchor are, when the outer command
\* returns, exactly what the inner command left, both within [0, lastOffset]:
\* the outer command writes neither after the hook returns.
C19_HookCommandKept ==
    (/\ pc = "returned"
     /\ last.cmd \in {"move", "leap"}
     /\ last.hooks # <<>>
     /\ last.env.inner \in HostCommands)
       => /\ ~last.err
          /\ position = LastHook.position
          /\ anchor = LastHook.anchor
          /\ position \in 0..lastOffset(tree)
          /\ anchor \in 0..lastOffset(tree)

\* an atom listed in the branch of its parent that it says it is in
Attached(t, a) ==
    /\ t[a].parent # Undefined
    /\ t[a].treeBranch \in DOMAIN t[t[a].parent].branch
    /\ \E k \in DOMAIN t[t[a].parent].branch[t[a].treeBranch] :
          t[t[a].parent].branch[t[a].treeBranch][k] = a

\* the atoms of the tree under the root: each one, and each of its ancestors
\* but the root, is attached, and its topmost ancestor is the root
InTree(t) ==
    {a \in DOMAIN t \ {Root} :
        /\ Root \in AncestorsOrSelf(t, a)
        /\ \A x \in AncestorsOrSelf(t, a) \ {Root} : Attached(t, x)}

\* at and offsetOf are inverses of each other on the atoms of the tree
Bijection(t) ==
    /\ \A a \in InTree(t) : at(t, offsetOf(t, a)) = a
    /\ \A k \in 0..lastOffset(t) :
          at(t, k) \in InTree(t) /\ offsetOf(t, at(t, k)) = k

\* the selection runs from the first to the last atom of a branch named name
SelectsBranch(name) ==
    /\ position \in 0..lastOffset(tree)
    /\ anchor \in 0..lastOffset(tree)
    /\ tree[at(tree, position)].treeBranch = name
    /\ tree[at(tree, position)].parent = tree[at(tree, anchor)].parent
    /\ tree[at(tree, anchor)].treeBranch = name
    /\ at(tree, anchor) = firstSibling(tree, at(tree, position))
    /\ at(tree, position) = lastSibling(tree, at(tree, position))

\* the owner of the branch the selection is in
SelectedOwner == tree[at(tree, position)].parent

\* the atoms the command added to the tree
Added == (DOMAIN tree) \ (DOMAIN last.prevTree)

\* the atom at the caret a script command starts from: the selection is
\* collapsed to its end first
ScriptTarget == at(last.prevTree, max(last.prevPosition, last.prevAnchor))

\* the script a successful script command has made or found: of the target
\* when it takes limits, else of an msubsup, which is the right sibling of
\* the target when the command added it
SelectsScript(name) ==
    /\ SelectsBranch(name)
    /\ SelectedOwner \in InTree(tree)
    /\ IF last.prevTree[ScriptTarget].limits \in {"limits", "auto"}
       THEN SelectedOwner = ScriptTarget
       ELSE /\ tree[SelectedOwner].type = "msubsup"
            /\ \A a \in Added :
                  tree[a].type = "msubsup" =>
                      /\ a = SelectedOwner
                      /\ leftSibling(tree, a) = ScriptTarget

ScriptCommand ==
    /\ pc = "returned"
    /\ last.cmd \in {"moveToSuperscript", "moveToSubscript"}
    /\ ~last.err

ScriptName == IF last.cmd = "moveToSuperscript" THEN "superscript" ELSE "subscript"

\* the atom at the position moveToOpposite starts from, and its branch
OppositeCursor == at(last.prevTree, last.prevPosition)

OppositeCommand ==
    /\ pc = "returned"
    /\ last.cmd = "moveToOpposite"
    /\ ~last.err

OppositeOf ==
    [superscript |-> "subscript", subscript |-> "superscript",
     above |-> "below", below |-> "above"]

CaptureOwners(t) == {o \in InTree(t) : t[o].captureSelection}

\* the caret at offset k is inside the atom o: the atom at k is in a branch
\* of o, or of a descendant of o
Inside(t, k, o) ==
    /\ at(t, k) # Undefined
    /\ at(t, k) # o
    /\ o \in AncestorsOrSelf(t, at(t, k))

\* a move forward or backward, without extend, from a collapsed caret in a
\* document with no command suggestion pending
MoveFromCaret ==
    /\ HorizontalMove
    /\ PrevCollapsed /\ PrevInRange
    /\ NoSuggestion(last.prevTree)
    /\ ~last.err

\* C21: a move(forward) without extend from a collapsed caret just before a
\* branch of an owner with captureSelection puts the caret just past the
\* owner, a move(backward) from just after the owner puts it just before
\* the owner's first child, and no such move that starts outside an owner
\* with captureSelection ends with the caret inside it.
C21_CaptureNotEntered ==
    MoveFromCaret =>
        \A o \in CaptureOwners(last.prevTree) :
            ~Inside(last.prevTree, last.prevPosition, o) =>
                /\ ~Inside(tree, position, o)
                /\ (/\ last.direction = "forward"
                    /\ parentOf(last.prevTree,
                                at(last.prevTree, last.prevPosition + 1)) = o) =>
                       position = offsetOf(tree, o)
                /\ (/\ last.direction = "backward"
                    /\ last.prevPosition = offsetOf(last.prevTree, o)) =>
                       position = offsetOf(tree, firstChild(tree, o)) - 1

DeleteCommand == pc = "returned" /\ last.cmd \in DeleteCommands /\ ~last.err

\* the range the delete command computed, its ends counted from the start
\* of the document and put in order
DeletedRange ==
    normalizeRange(last.prevTree, deleteCommandRange(Prev, last.cmd))

\* a collapsed caret that is already at the boundary the command deletes to
AtOwnBoundary ==
    /\ PrevCollapsed /\ PrevInRange
    /\ CASE last.cmd = "deleteToGroupStart" ->
               isFirstSibling(last.prevTree, at(last.prevTree, last.prevPosition))
         [] last.cmd = "deleteToGroupEnd" ->
               isLastSibling(last.prevTree, at(last.prevTree, last.prevPosition))
         [] last.cmd = "deleteToMathFieldStart" -> last.prevPosition = 0
         [] last.cmd = "deleteToMathFieldEnd" ->
               last.prevPosition = lastOffset(last.prevTree)
         [] OTHER -> FALSE

WordDeletion ==
    /\ DeleteCommand
    /\ last.cmd \in {"deleteNextWord", "deletePreviousWord"}
    /\ PrevCollapsed /\ PrevInRange
    /\ last.prevTree[at(last.prevTree, last.prevPosition)].mode = "text"

WordDirection == IF last.cmd = "deleteNextWord" THEN "forward" ELSE "backward"

\* what moveToNextWord / moveToPreviousWord does from the state the delete
\* command started from
WordNavigation == skip(Prev, WordDirection, FALSE)

\* the atoms the command took out of the tree
Removed == InTree(last.prevTree) \ InTree(tree)

\* the atoms between the offsets p and q
Between(t, p, q) == {at(t, k) : k \in (min(p, q) + 1)..max(p, q)} \ {Undefined}

\* C23: for a collapsed caret at P in text mode, deleteNextWord
\* (deletePreviousWord) removes exactly the atoms between P and the offset
\* at which moveToNextWord (moveToPreviousWord) from the same state puts the
\* caret, and removes at least one atom whenever that navigation succeeds.
C23_WordDeletionMatchesNavigation ==
    (WordDeletion /\ ~WordNavigation.err) =>
        /\ Removed = Between(last.prevTree, last.prevPosition, WordNavigation.position)
        /\ WordNavigation.ret => Removed # {}

\* skip without extend, moveToSuperscript or moveToSubscript has returned false
FailedCommand ==
    /\ pc = "returned"
    /\ \/ last.cmd = "skip" /\ ~last.extend
       \/ last.cmd \in {"moveToSuperscript", "moveToSubscript"}
    /\ PrevInRange
    /\ ~last.err
    /\ ~last.ret

\* C24: whenever skip (forward or backward, without extend),
\* moveToSuperscript or moveToSubscript returns false, position and anchor
\* are what they were before the call, also when the call started with a
\* selection that was not collapsed.
C24_FailureLeavesSelection ==
    FailedCommand =>
        position = last.prevPosition /\ anchor = last.prevAnchor

\* moveToOpposite from a caret whose atom is in a superscript, subscript,
\* above or below branch
OppositeFromBranch ==
    /\ OppositeCommand
    /\ PrevInRange
    /\ last.prevTree[OppositeCursor].treeBranch \in DOMAIN OppositeOf

StartBranch == last.prevTree[OppositeCursor].treeBranch

StartOwner == last.prevTree[OppositeCursor].parent

\* C25: moveToOpposite from a caret in a superscript, subscript, above or
\* below branch selects the contents of the opposite branch (subscript,
\* superscript, below, above) of the same parent; the branch is created,
\* with its 'first' atom only, if and only if it did not exist; and a
\* second moveToOpposite right after it selects the contents of the branch
\* the first one started in, creating no branch.
C25_OppositeThereAndBack ==
    OppositeFromBranch =>
        LET opposite == OppositeOf[StartBranch]
            again == moveToOpposite(Model)
        IN /\ SelectsBranch(opposite)
           /\ SelectedOwner = StartOwner
           /\ IF branch(last.prevTree, StartOwner, opposite) # <<>>
              THEN tree = last.prevTree
              ELSE /\ Len(tree) = Len(last.prevTree) + 1
                   /\ branch(tree, StartOwner, opposite) = <<Len(tree)>>
                   /\ tree[Len(tree)].type = "first"
                   /\ \A a \in DOMAIN last.prevTree :
                         a \notin {Root, StartOwner} => tree[a] = last.prevTree[a]
           /\ ~again.err
           /\ again.tree = tree
           /\ again.anchor = offsetOf(tree, branch(tree, StartOwner, StartBranch)[1])
           /\ again.position =
                  offsetOf(tree, branch(tree, StartOwner, StartBranch)
                                     [Len(branch(tree, StartOwner, StartBranch))])

\* from the denominator of a fraction without a numerator: the numerator is
\* created and selected
C25_Witness ==
    /\ OppositeFromBranch
    /\ StartBranch = "below"
    /\ branch(last.prevTree, StartOwner, "above") = <<>>
    /\ branch(tree, StartOwner, "above") # <<>>
    /\ at(tree, position) = branch(tree, StartOwner, "above")[1]
    /\ last.ret

\* the offsets of the placeholders after the offset p
PlaceholdersAfter(t, p) ==
    {k \in (p + 1)..lastOffset(t) : typeOf(t, at(t, k)) = "placeholder"}

\* C26: from a collapsed caret at offset 0, with leap(forward) called again
\* and again, every placeholder of the document becomes the selection
\* exactly once, in increasing order of offset, before the first call that
\* finds no candidate in the document and calls tabOut, also when
\* placeholders are next to each other; and no leap calls the moveOut hook.
\* Call by call: a leap that does not call tabOut goes forward, passes over
\* no placeholder, and selects the placeholder it stops at; a leap calls
\* tabOut only when no placeholder is left after the position, and then
\* selects nothing.
C26_LeapVisitsEachPlaceholder ==
    (Returned("leap") /\ ~last.err) =>
        /\ ~calls(last.hooks, "moveOut")
        /\ IF calls(last.hooks, "tabOut")
           THEN /\ PlaceholdersAfter(tree, last.prevPosition) = {}
                /\ position = last.prevPosition /\ anchor = last.prevAnchor
           ELSE /\ position > last.prevPosition
                /\ \A k \in PlaceholdersAfter(tree, last.prevPosition) : position <= k
                /\ IF typeOf(tree, at(tree, position)) = "placeholder"
                   THEN anchor = position - 1
                   ELSE anchor = position

\* the parent of the atom at the position the command started from
StartParent == last.prevTree[at(last.prevTree, last.prevPosition)].parent

\* the atoms in the branches of the atom a, at any depth
Contained(t, a) == {x \in InTree(t) : x # a /\ a \in AncestorsOrSelf(t, x)}

\* C27: after moveBeforeParent returned true the caret is before the parent
\* atom: the position is smaller than the offset of every atom contained in
\* the branches of the parent, and smaller than the offset at which
\* moveAfterParent would put the caret from the same state.
C27_BeforeParent ==
    (Returned("moveBeforeParent") /\ PrevInRange /\ ~last.err /\ last.ret) =>
        /\ \A a \in Contained(tree, StartParent) : position < offsetOf(tree, a)
        /\ position < moveAfterParent(Prev).position

\* the number of branches of the given name that enclose the caret: the
\* atom at the position and its ancestors that lie in such a branch
NestedScripts(name) == Cardinality(InBranch(tree, at(tree, position), name))

\* C28: after any sequence of moveToSuperscript, moveToSubscript and
\* moveToOpposite commands the number of nested superscript branches that
\* enclose the caret does not exceed options.scriptDepth[1], and the number
\* of nested subscript branches does not exceed options.scriptDepth[0],
\* also when the enclosing script branches are still empty.
C28_ScriptDepthLimit ==
    position \in 0..lastOffset(tree) =>
        /\ NestedScripts("superscript") <= ScriptDepth.superscript
        /\ NestedScripts("subscript") <= ScriptDepth.subscript

\* skip without extend has returned true
Skipped ==
    /\ Returned("skip")
    /\ ~last.extend
    /\ PrevInRange
    /\ ~last.err /\ last.ret

\* the position once skip has collapsed the selection toward its direction
SkipStart == collapseSelection(Prev, last.direction).position

\* C29: a skip(forward) without extend that returns true ends with the
\* position strictly greater than the position after its initial collapse
\* of the selection, and a skip(backward) that returns true with the
\* position strictly smaller, in text runs, command runs, fence skips and
\* math runs alike.
C29_SkipMonotone ==
    Skipped =>
        IF last.direction = "forward" THEN position > SkipStart
        ELSE position < SkipStart

BoundaryCommands ==
    {"moveToGroupStart", "moveToGroupEnd", "moveToMathFieldStart", "moveToMathFieldEnd"}

\* the offset the command moves to, from the state it started from
BoundaryTarget ==
    CASE last.cmd = "moveToMathFieldStart" -> 0
      [] last.cmd = "moveToMathFieldEnd" -> lastOffset(last.prevTree)
      [] last.cmd = "moveToGroupStart" ->
            offsetOf(last.prevTree,
                     firstSibling(last.prevTree, at(last.prevTree, last.prevPosition)))
      [] last.cmd = "moveToGroupEnd" ->
            offsetOf(last.prevTree,
                     lastSibling(last.prevTree, at(last.prevTree, last.prevPosition)))

\* C30: moveToMathFieldStart, moveToMathFieldEnd, moveToGroupStart and
\* moveToGroupEnd always leave a collapsed caret at their target offset
\* (anchor = position = target), whatever the selection was, also when a
\* selection that is not collapsed has its position at the target already.
C30_CollapsedAtTarget ==
    (/\ pc = "returned"
     /\ last.cmd \in BoundaryCommands
     /\ PrevInRange
     /\ ~last.err) =>
        position = BoundaryTarget /\ anchor = BoundaryTarget

====
